---- MODULE Spec2Model ----
(***************************************************************************)
(* Model of dastore's src/main.py: the PackageQueue (pending-install       *)
(* queue), and the InstallProgressWindow worker that runs pacman / yay,    *)
(* streams the output, handles cancellation and reports an outcome.        *)
(*                                                                         *)
(* Fractions are integers in thousandths (0.05 is 50, 1.0 is 1000).        *)
(***************************************************************************)
EXTENDS Integers, Sequences, FiniteSets, TLC

VARIABLES
    packages,         \* PackageQueue.packages: sequence of [name, repo]
    lock,             \* PackageQueue._lock: NoOwner or the holder
    thr,              \* callers of the queue API: position and locals
    idleQ,            \* GLib.idle_add FIFO of the controlling context
    operation,        \* InstallProgressWindow.operation
    is_aur,           \* InstallProgressWindow.is_aur
    cancelled,        \* InstallProgressWindow.cancelled
    completed,        \* InstallProgressWindow.completed
    process,          \* InstallProgressWindow.process (NoProc or a proc id)
    pc,               \* position of the worker thread (execute_operation)
    uiPc,             \* position of the controlling context in on_cancel_clicked
    procs,            \* the external processes: state, exit code, signals
    wk,               \* locals of the worker thread
    ui,               \* widgets: status label, fraction, cancel button
    hist,             \* observation only: what the run has done so far
    items,            \* AsyncOperation: the work items handed to run_async
    srch,             \* MainWindow.search_packages: position and locals of one call
    feed              \* what the external process of a single operation prints, when fixed

qvars == <<packages, lock, thr, idleQ>>
rvars == <<operation, is_aur, cancelled, completed, process, pc, uiPc, procs, wk, ui, hist>>
avars == <<items, srch, feed>>
vars  == <<packages, lock, thr, idleQ, operation, is_aur, cancelled, completed,
           process, pc, uiPc, procs, wk, ui, hist, items, srch, feed>>

(***************************************************************************)
(* Bounds                                                                  *)
(***************************************************************************)
MaxPending == 1       \* idle callbacks pending before a queue caller starts a new call
MaxLines   == 2       \* lines one external process prints
MaxItems   == 5       \* work items handed to run_async
MaxResults == 2       \* records one search command lists
MaxFeed    == 2       \* lines of a fixed output, the phase headers apart

(***************************************************************************)
(* Inputs                                                                  *)
(***************************************************************************)
Names   == {"firefox", "yay-bin"}
Repos   == {"core", "AUR", "Popular"}
Threads == {"t1", "t2"}

PkgInputs == {[name |-> n, repo |-> r] : n \in Names, r \in Repos}

NoOwner == "free"

\* no fixed output: the process prints any of Lines, up to MaxLines of them
NoFeed == [lines |-> <<>>, out |-> <<>>, seen |-> <<>>, gap |-> <<>>]

\* str.lower() on the repository strings the model uses
Lower(s) ==
    CASE s = "AUR"     -> "aur"
      [] s = "Popular" -> "popular"
      [] OTHER         -> s

(***************************************************************************)
(* PackageQueue                                                            *)
(***************************************************************************)
Range(s) == {s[i] : i \in DOMAIN s}

\* a plausible slip: compares whole records instead of names
RecordPresent(pkgs, pkg) == \E i \in DOMAIN pkgs : pkgs[i] = pkg

\* any(p.name == package.name for p in self.packages)
NamePresent(pkgs, pkg) == \E i \in DOMAIN pkgs : pkgs[i].name = pkg.name

\* a plausible slip: appends whatever the membership test said
AddAlways(pkgs, pkg, found) == Append(pkgs, pkg)

\* if not any(...): self.packages.append(package)
AddResult(pkgs, pkg, found) == IF found THEN pkgs ELSE Append(pkgs, pkg)

\* [p for p in self.packages if p.name != package.name]
RemoveResult(pkgs, pkg) == SelectSeq(pkgs, LAMBDA p : p.name # pkg.name)

\* package.repo.lower() == "aur" or package.repo.lower() == "popular"
IsAlternate(pkg) == Lower(pkg.repo) = "aur" \/ Lower(pkg.repo) = "popular"

\* a plausible slip: the else branch is lost, primary records are dropped
SeparatedDropsPrimary(pkgs) ==
    << <<>>, SelectSeq(pkgs, IsAlternate) >>

\* get_separated_packages: (pacman_packages, aur_packages), queue order kept
get_separated_packages(pkgs) ==
    << SelectSeq(pkgs, LAMBDA p : ~IsAlternate(p)), SelectSeq(pkgs, IsAlternate) >>

\* one idle_add(callback) per registered observer (QueuePage.update_queue)
QNotify == [type |-> "qnotify", frac |-> 0, status |-> ""]

\* a plausible slip: nothing is handed to the main loop
NotifyNothing(q) == q

notify_callbacks(q) == Append(q, QNotify)

\* a plausible slip: the lock is not taken
CanAcquireAlways(owner) == TRUE

\* with self._lock: entered only when nobody holds the lock
CanAcquire(owner) == lock = NoOwner

ThrIdle == [pc |-> "idle", op |-> "none", arg |-> [name |-> "", repo |-> ""],
            found |-> FALSE, res |-> << <<>>, <<>> >>]

\* a caller enters add_package / remove_package / clear / get_separated_packages
Call(t) ==
    /\ thr[t].pc = "idle"
    /\ Len(idleQ) < MaxPending
    /\ \E op \in {"add", "remove", "clear", "sep"} :
         \E a \in (IF op = "add" THEN PkgInputs
                  ELSE IF op = "remove" THEN {[name |-> n, repo |-> "core"] : n \in Names}
                  ELSE {ThrIdle.arg}) :
            thr' = [thr EXCEPT ![t] = [ThrIdle EXCEPT !.pc = "acquire", !.op = op, !.arg = a]]
    /\ UNCHANGED <<packages, lock, idleQ>>
    /\ UNCHANGED rvars
    /\ UNCHANGED avars

Acquire(t) ==
    /\ thr[t].pc = "acquire"
    /\ CanAcquire(t)
    /\ lock' = t
    /\ thr' = [thr EXCEPT ![t].pc = thr[t].op]
    /\ UNCHANGED <<packages, idleQ>>
    /\ UNCHANGED rvars
    /\ UNCHANGED avars

\* add_package, the membership test
AddCheck(t) ==
    /\ thr[t].pc = "add"
    /\ thr' = [thr EXCEPT ![t].pc = "add_append",
                          ![t].found = NamePresent(packages, thr[t].arg)]
    /\ UNCHANGED <<packages, lock, idleQ>>
    /\ UNCHANGED rvars
    /\ UNCHANGED avars

\* add_package, the append and the notification
AddAppend(t) ==
    /\ thr[t].pc = "add_append"
    /\ packages' = AddResult(packages, thr[t].arg, thr[t].found)
    /\ idleQ' = IF thr[t].found THEN idleQ ELSE notify_callbacks(idleQ)
    /\ thr' = [thr EXCEPT ![t].pc = "unlock"]
    /\ UNCHANGED lock
    /\ UNCHANGED rvars
    /\ UNCHANGED avars

remove_package(t) ==
    /\ thr[t].pc = "remove"
    /\ packages' = RemoveResult(packages, thr[t].arg)
    /\ idleQ' = notify_callbacks(idleQ)
    /\ thr' = [thr EXCEPT ![t].pc = "unlock"]
    /\ UNCHANGED lock
    /\ UNCHANGED rvars
    /\ UNCHANGED avars

clear(t) ==
    /\ thr[t].pc = "clear"
    /\ packages' = <<>>
    /\ idleQ' = notify_callbacks(idleQ)
    /\ thr' = [thr EXCEPT ![t].pc = "unlock"]
    /\ UNCHANGED lock
    /\ UNCHANGED rvars
    /\ UNCHANGED avars

Separate(t) ==
    /\ thr[t].pc = "sep"
    /\ thr' = [thr EXCEPT ![t].pc = "unlock", ![t].res = get_separated_packages(packages)]
    /\ UNCHANGED <<packages, lock, idleQ>>
    /\ UNCHANGED rvars
    /\ UNCHANGED avars

\* leaving the with block; the call returns
Release(t) ==
    /\ thr[t].pc = "unlock"
    /\ lock' = IF lock = t THEN NoOwner ELSE lock
    /\ thr' = [thr EXCEPT ![t].pc = "idle"]
    /\ UNCHANGED <<packages, idleQ>>
    /\ UNCHANGED rvars
    /\ UNCHANGED avars

(***************************************************************************)
(* The controlling context: GLib main loop                                 *)
(***************************************************************************)
Progress(frac, status) == [type |-> "progress", frac |-> frac, status |-> status]
CompleteEv == [type |-> "complete", frac |-> 0, status |-> ""]
AuthErrEv  == [type |-> "autherr", frac |-> 0, status |-> ""]

\* append_output(line): GLib.idle_add(self._append_output_ui, line), for the n-th
\* line of a process's output (the fixed banner texts are left out of the log)
LogEv(n) == [type |-> "log", frac |-> 0, status |-> "", line |-> n]

\* a plausible slip: log callbacks are added ahead of the pending callbacks
append_output_ahead(q, n) == <<LogEv(n)>> \o q

append_output(q, n) == Append(q, LogEv(n))

\* update_progress: GLib.idle_add(self._update_progress_ui, fraction, status, operation)
update_progress(q, frac, status) == Append(q, Progress(frac, status))

\* QueuePage.update_queue: the rows are rebuilt from self.queue.packages, which
\* is read as it is, without the lock
update_queue(pkgs) == pkgs

\* the main loop runs the oldest idle callback: _update_progress_ui,
\* _append_output_ui, operation_complete, show_authentication_error or
\* QueuePage.update_queue; feed.seen keeps what ran during a fixed output
MainDispatch ==
    /\ uiPc = "idle"
    /\ idleQ # <<>>
    /\ Head(idleQ).type # "callback"
    /\ LET e == Head(idleQ) IN
         /\ ui' = CASE e.type = "progress" -> [ui EXCEPT !.status = e.status, !.frac = e.frac]
                    [] e.type = "complete" -> [ui EXCEPT !.cancel_sensitive = FALSE,
                                                         !.close_sensitive = TRUE]
                    [] e.type = "autherr"  -> [ui EXCEPT !.auth_dialog = TRUE]
                    [] e.type = "qnotify"  -> [ui EXCEPT !.queue_rows = update_queue(packages)]
                    [] OTHER               -> ui
         /\ hist' = IF e.type = "complete"
                       THEN [hist EXCEPT !.delivered = hist.delivered + 1]
                       ELSE hist
    /\ idleQ' = Tail(idleQ)
    /\ feed' = IF feed = NoFeed THEN feed ELSE [feed EXCEPT !.seen = Append(@, Head(idleQ))]
    /\ UNCHANGED <<packages, lock, thr>>
    /\ UNCHANGED <<operation, is_aur, cancelled, completed, process, pc, uiPc, procs, wk>>
    /\ UNCHANGED <<items, srch>>

(***************************************************************************)
(* The external processes                                                  *)
(***************************************************************************)
NoProc  == "none"
ProcIds == {"single", "primary", "alternate"}

ProcNone == [state |-> "none", rc |-> 0, term |-> FALSE, kill |-> FALSE, lines |-> 0]

Alive(p) == procs[p].state \in {"running", "closed"}

\* Popen.terminate(): SIGTERM, unless the process has already been reaped
Terminated(ps, p) ==
    IF ps[p].state \in {"running", "closed"} THEN [ps EXCEPT ![p].term = TRUE] ELSE ps

\* Popen.kill(): SIGKILL ends the process
Killed(ps, p) ==
    IF ps[p].state \in {"running", "closed"}
      THEN [ps EXCEPT ![p].kill = TRUE, ![p].state = "exited", ![p].rc = -9]
      ELSE ps

\* the process closes its output, or the pipe breaks, while it keeps running
ProcCloseStdout(p) ==
    /\ procs[p].state = "running"
    /\ procs' = [procs EXCEPT ![p].state = "closed"]
    /\ UNCHANGED qvars
    /\ UNCHANGED <<operation, is_aur, cancelled, completed, process, pc, uiPc, wk, ui, hist>>
    /\ UNCHANGED avars

\* the process exits by itself, or dies of the SIGTERM it was sent
ProcExit(p) ==
    /\ Alive(p)
    /\ \E rc \in (IF procs[p].term THEN {0, 1, -15} ELSE {0, 1}) :
         procs' = [procs EXCEPT ![p].state = "exited", ![p].rc = rc]
    /\ UNCHANGED qvars
    /\ UNCHANGED <<operation, is_aur, cancelled, completed, process, pc, uiPc, wk, ui, hist>>
    /\ UNCHANGED avars

(***************************************************************************)
(* InstallProgressWindow.on_cancel_clicked, on the controlling context     *)
(***************************************************************************)
\* self.cancelled = True
CancelClick ==
    /\ uiPc = "idle"
    /\ pc # "none"
    /\ ui.cancel_sensitive
    /\ cancelled' = TRUE
    /\ uiPc' = "cancel_proc"
    /\ hist' = [hist EXCEPT !.cancelAt = pc, !.reportedAtCancel = hist.reported,
                             !.aliveAtCancel = {p \in ProcIds : Alive(p)}]
    /\ UNCHANGED qvars
    /\ UNCHANGED <<operation, is_aur, completed, process, pc, procs, wk, ui>>
    /\ UNCHANGED avars

\* if self.process: self.process.terminate()
CancelTerminate ==
    /\ uiPc = "cancel_proc"
    /\ IF process # NoProc
         THEN /\ procs' = Terminated(procs, process)
              /\ uiPc' = "cancel_wait"
         ELSE /\ procs' = procs
              /\ uiPc' = "cancel_finish"
    /\ UNCHANGED qvars
    /\ UNCHANGED <<operation, is_aur, cancelled, completed, process, pc, wk, ui, hist>>
    /\ UNCHANGED avars

\* self.process.wait(timeout=5); on TimeoutExpired self.process.kill()
CancelWait ==
    /\ uiPc = "cancel_wait"
    /\ \/ /\ procs[process].state = "exited"
          /\ procs' = procs
       \/ /\ procs[process].state # "exited"
          /\ procs' = Killed(procs, process)
    /\ uiPc' = "cancel_finish"
    /\ UNCHANGED qvars
    /\ UNCHANGED <<operation, is_aur, cancelled, completed, process, pc, wk, ui, hist>>
    /\ UNCHANGED avars

\* the buttons, and update_progress(1.0, "Installation cancelled", "")
CancelFinish ==
    /\ uiPc = "cancel_finish"
    /\ ui' = [ui EXCEPT !.cancel_sensitive = FALSE, !.close_sensitive = TRUE]
    /\ idleQ' = update_progress(idleQ, 1000, "cancelled")
    /\ hist' = [hist EXCEPT !.cancelStatusByUi = TRUE]
    /\ uiPc' = "idle"
    /\ UNCHANGED <<packages, lock, thr>>
    /\ UNCHANGED <<operation, is_aur, cancelled, completed, process, pc, procs, wk>>
    /\ UNCHANGED avars

(***************************************************************************)
(* Output lines and their classification (execute_operation read loop)     *)
(***************************************************************************)
NoSize == [cur |-> [tenths |-> 0, unit |-> ""], total |-> [tenths |-> 0, unit |-> ""], present |-> FALSE]

Size(c, cu, t, tu) == [cur |-> [tenths |-> c, unit |-> cu], total |-> [tenths |-> t, unit |-> tu],
                       present |-> TRUE]

Line(auth, pct, kw, size, header, prompt) ==
    [auth |-> auth, pct |-> pct, kw |-> kw, size |-> size, header |-> header, prompt |-> prompt]

\* lines the external process may print; pct = -1 means no "(<digits>%)" marker
LAuth   == Line(TRUE,  -1, "", NoSize, 0, FALSE)
LPctDl  == Line(FALSE, 50, "downloading", NoSize, 0, FALSE)
LSize   == Line(FALSE, -1, "", Size(15, "MIB", 100, "MIB"), 0, FALSE)
LHeader == Line(FALSE, -1, "", NoSize, 1, FALSE)
LPrompt == Line(FALSE, -1, "", NoSize, 0, TRUE)
LPlain  == Line(FALSE, -1, "", NoSize, 0, FALSE)

Lines == {LAuth, LPctDl, LSize, LHeader, LPrompt, LPlain}

\* a plausible slip: one checkpoint below its predecessor
HeaderTableDip ==
    << [phrase |-> "resolving dependencies",         frac |-> 50,  status |-> "Resolving dependencies..."],
       [phrase |-> "checking dependencies",          frac |-> 100, status |-> "Checking dependencies..."],
       [phrase |-> "retrieving packages",            frac |-> 150, status |-> "Retrieving packages..."],
       [phrase |-> "checking keyring",               frac |-> 200, status |-> "Checking package integrity..."],
       [phrase |-> "loading package files",          frac |-> 250, status |-> "Loading packages..."],
       [phrase |-> "checking for conflicts",         frac |-> 300, status |-> "Checking for conflicts..."],
       [phrase |-> "checking available disk space",  frac |-> 350, status |-> "Checking disk space..."],
       [phrase |-> "running pre-transaction hooks",  frac |-> 400, status |-> "Running pre-transaction hooks..."],
       [phrase |-> "processing package changes",     frac |-> 45,  status |-> "Processing package changes..."],
       [phrase |-> "running post-transaction hooks", frac |-> 900, status |-> "Running post-transaction hooks..."] >>

\* the elif chain of phase headers, in source order
HeaderTable ==
    << [phrase |-> "resolving dependencies",         frac |-> 50,  status |-> "Resolving dependencies..."],
       [phrase |-> "checking dependencies",          frac |-> 100, status |-> "Checking dependencies..."],
       [phrase |-> "retrieving packages",            frac |-> 150, status |-> "Retrieving packages..."],
       [phrase |-> "checking keyring",               frac |-> 200, status |-> "Checking package integrity..."],
       [phrase |-> "loading package files",          frac |-> 250, status |-> "Loading packages..."],
       [phrase |-> "checking for conflicts",         frac |-> 300, status |-> "Checking for conflicts..."],
       [phrase |-> "checking available disk space",  frac |-> 350, status |-> "Checking disk space..."],
       [phrase |-> "running pre-transaction hooks",  frac |-> 400, status |-> "Running pre-transaction hooks..."],
       [phrase |-> "processing package changes",     frac |-> 450, status |-> "Processing package changes..."],
       [phrase |-> "running post-transaction hooks", frac |-> 900, status |-> "Running post-transaction hooks..."] >>

Min(a, b) == IF a < b THEN a ELSE b

\* size_str.upper() on the unit suffixes the pattern lets through
UpperUnit(u) ==
    CASE u = "KiB" -> "KIB"
      [] u = "MiB" -> "MIB"
      [] u = "GiB" -> "GIB"
      [] u = "TiB" -> "TIB"
      [] OTHER     -> u

\* a plausible slip: decimal unit factors
parse_size_decimal(sz) ==
    CASE UpperUnit(sz.unit) = "KIB" -> sz.tenths
      [] UpperUnit(sz.unit) = "MIB" -> sz.tenths * 1000
      [] UpperUnit(sz.unit) = "GIB" -> sz.tenths * 1000 * 1000
      [] OTHER                      -> -1

\* parse_size, in tenths of a KiB (the byte counts exceed the checker's integers):
\* the unit table of the K, M and G suffixes; -1 when float() raises ("T" units)
parse_size(sz) ==
    CASE UpperUnit(sz.unit) = "KIB" -> sz.tenths
      [] UpperUnit(sz.unit) = "MIB" -> sz.tenths * 1024
      [] UpperUnit(sz.unit) = "GIB" -> sz.tenths * 1024 * 1024
      [] OTHER                      -> -1

Effect(kind, frac, status) == [kind |-> kind, frac |-> frac, status |-> status]

\* a plausible slip: the phase headers are looked for before the markers
ClassifyHeaderFirst(line, total, stalled) ==
    IF line.auth THEN Effect("auth", 1000, "Authentication failed")
    ELSE IF line.header > 0 THEN
        Effect("progress", HeaderTable[line.header].frac, HeaderTable[line.header].status)
    ELSE IF line.pct >= 0 THEN
        (IF line.kw = "downloading" THEN Effect("progress", 100 + 3 * line.pct, "Downloading...")
         ELSE IF line.kw = "installing" THEN Effect("progress", 400 + 5 * line.pct, "Installing...")
         ELSE Effect("progress", 100 + 8 * line.pct, "Processing..."))
    ELSE IF line.size.present THEN
        (LET c == parse_size(line.size.cur)
             t == parse_size(line.size.total)
         IN IF c >= 0 /\ t > 0
              THEN Effect("progress", 100 + (300 * c) \div t, "Downloading...")
              ELSE Effect("none", 0, ""))
    ELSE IF line.prompt THEN Effect("write", 0, "")
    ELSE IF stalled THEN Effect("progress", Min(100 + total, 950), "Processing...")
    ELSE Effect("none", 0, "")

\* the if / elif chain of the read loop; total is total_lines after the increment,
\* stalled is current_time - last_progress_time > 2
Classify(line, total, stalled) ==
    IF line.auth THEN Effect("auth", 1000, "Authentication failed")
    ELSE IF line.pct >= 0 THEN
        (IF line.kw = "downloading" THEN Effect("progress", 100 + 3 * line.pct, "Downloading...")
         ELSE IF line.kw = "installing" THEN Effect("progress", 400 + 5 * line.pct, "Installing...")
         ELSE Effect("progress", 100 + 8 * line.pct, "Processing..."))
    ELSE IF line.size.present THEN
        (LET c == parse_size(line.size.cur)
             t == parse_size(line.size.total)
         IN IF c >= 0 /\ t > 0
              THEN Effect("progress", 100 + (300 * c) \div t, "Downloading...")
              ELSE Effect("none", 0, ""))
    ELSE IF line.header > 0 THEN
        Effect("progress", HeaderTable[line.header].frac, HeaderTable[line.header].status)
    ELSE IF line.prompt THEN Effect("write", 0, "")
    ELSE IF stalled THEN Effect("progress", Min(100 + total, 950), "Processing...")
    ELSE Effect("none", 0, "")

(***************************************************************************)
(* InstallProgressWindow.execute_operation, on the worker thread           *)
(***************************************************************************)
Kinds       == {"install", "uninstall", "update", "system_update", "queue_install", "update_repos"}
SingleKinds == {"install", "uninstall", "update", "system_update"}

WkInit == [pac |-> <<>>, aur |-> <<>>, current_progress |-> 50, total_lines |-> 0,
           phase |-> "primary", cmd |-> <<>>]

\* a plausible slip: the source flag is looked at before the operation
CommandFlagFirst(op, aur, name) ==
    IF aur THEN <<"yay", "-S", "--noconfirm", name>>
    ELSE CASE op = "uninstall"     -> <<"pkexec", "pacman", "-R", "--noconfirm", name>>
           [] op = "system_update" -> <<"pkexec", "pacman", "-Syu", "--noconfirm">>
           [] OTHER                -> <<"pkexec", "pacman", "-S", "--noconfirm", name>>

\* cmd, as the branch on self.operation builds it for a single operation
Command(op, aur, name) ==
    CASE op \in {"install", "update"} ->
             IF aur THEN <<"yay", "-S", "--noconfirm", name>>
                    ELSE <<"pkexec", "pacman", "-S", "--noconfirm", name>>
      [] op = "uninstall"     -> <<"pkexec", "pacman", "-R", "--noconfirm", name>>
      [] op = "system_update" -> <<"pkexec", "pacman", "-Syu", "--noconfirm">>

\* package_names = [p.name for p in ...]; cmd of a batch sub-command
BatchCommand(phase, pkgs) ==
    (IF phase = "primary" THEN <<"pkexec", "pacman", "-S", "--noconfirm">>
                          ELSE <<"yay", "-S", "--noconfirm">>)
        \o [i \in DOMAIN pkgs |-> pkgs[i].name]

UiInit == [status |-> "Preparing...", frac |-> 0, cancel_sensitive |-> TRUE,
           close_sensitive |-> FALSE, auth_dialog |-> FALSE, queue_rows |-> <<>>]

HistInit == [dispatched |-> 0, delivered |-> 0, reported |-> "none",
             cancelAt |-> "none", reportedAtCancel |-> "none", cancelStatusByUi |-> FALSE,
             authSeen |-> FALSE, cancelObserved |-> FALSE, runClears |-> 0,
             launched |-> {}, rcRead |-> {}, raised |-> FALSE, aliveAtCancel |-> {}]

\* the branch on self.operation: initial progress event and command
Start ==
    /\ pc = "start"
    /\ IF operation \in SingleKinds
         THEN /\ idleQ' = update_progress(idleQ, 50, "init")
              /\ wk' = [wk EXCEPT !.cmd = Command(operation, is_aur, packages[1].name)]
              /\ pc' = "launch"
         ELSE IF operation = "queue_install"
         THEN /\ idleQ' = idleQ
              /\ wk' = wk
              /\ pc' = "q_sep"
         ELSE \* no branch binds cmd: ' '.join(cmd) raises UnboundLocalError
              /\ idleQ' = idleQ
              /\ wk' = wk
              /\ pc' = "except"
    /\ UNCHANGED <<packages, lock, thr>>
    /\ UNCHANGED <<operation, is_aur, cancelled, completed, process, uiPc, procs, ui, hist>>
    /\ UNCHANGED avars

\* self.process = subprocess.Popen(...), then the two "Y\n" writes
Launch ==
    /\ pc = "launch"
    /\ \/ /\ procs' = [procs EXCEPT !["single"].state = "running"]
          /\ process' = "single"
          /\ hist' = [hist EXCEPT !.launched = hist.launched \cup {"single"}]
          /\ pc' = "loop"
       \/ /\ pc' = "except"          \* Popen raises OSError
          /\ UNCHANGED <<procs, process, hist>>
    /\ UNCHANGED qvars
    /\ UNCHANGED <<operation, is_aur, cancelled, completed, uiPc, wk, ui>>
    /\ UNCHANGED avars

\* while True: if self.cancelled: break
LoopCheck ==
    /\ pc = "loop"
    /\ pc' = IF cancelled THEN "post" ELSE "read"
    /\ hist' = [hist EXCEPT !.cancelObserved = hist.cancelObserved \/ cancelled]
    /\ UNCHANGED qvars
    /\ UNCHANGED <<operation, is_aur, cancelled, completed, process, uiPc, procs, wk, ui>>
    /\ UNCHANGED avars

\* process.stdin.write("Y\n"), as feed.out records it
StdinEv == [type |-> "stdin", frac |-> 0, status |-> "Y"]

\* whole seconds between a line and the last progress event of the loop
Gaps == {2, 3}

\* a plausible slip: the idle window ends at two seconds, not after them
StallElapsedAtTwo(gap) == gap >= 2

\* current_time - last_progress_time > 2
StallElapsed(gap) == gap > 2

\* the line falls through to the last elif, where the clock is compared
ReachesStall(line) ==
    ~line.auth /\ line.pct < 0 /\ ~line.size.present /\ line.header = 0 /\ ~line.prompt

\* line = self.process.stdout.readline() returned a line; it is classified
\* feed.gap keeps the seconds the last elif compared, 0 when it was not reached
\* feed.out keeps, per line read of a fixed output, what the line caused: the
\* callbacks handed to the main loop and the answer written to the process
ReadLine ==
    /\ pc = "read"
    /\ procs["single"].state = "running"
    /\ procs["single"].lines < (IF feed = NoFeed THEN MaxLines ELSE Len(feed.lines))
    /\ \E line \in (IF feed = NoFeed THEN Lines ELSE {feed.lines[procs["single"].lines + 1]}),
          gap \in Gaps :
         LET total == wk.total_lines + 1
             eff   == Classify(line, total, StallElapsed(gap))
             q1    == append_output(idleQ, procs["single"].lines + 1)
             q2    == IF eff.kind = "auth"
                        THEN Append(update_progress(q1, eff.frac, eff.status), AuthErrEv)
                      ELSE IF eff.kind = "progress"
                        THEN update_progress(q1, eff.frac, eff.status)
                      ELSE q1
         IN /\ wk' = [wk EXCEPT !.total_lines = total]
            /\ idleQ' = q2
            /\ feed' = IF feed = NoFeed THEN feed
                       ELSE [feed EXCEPT !.out =
                               Append(@, <<LogEv(procs["single"].lines + 1)>>
                                           \o (CASE eff.kind = "auth" ->
                                                      <<Progress(eff.frac, eff.status), AuthErrEv>>
                                                 [] eff.kind = "progress" ->
                                                      <<Progress(eff.frac, eff.status)>>
                                                 [] eff.kind = "write" -> <<StdinEv>>
                                                 [] OTHER -> <<>>)),
                                    !.gap = Append(@, IF ReachesStall(line) THEN gap ELSE 0)]
            /\ IF eff.kind = "auth"
                 THEN /\ procs' = Terminated([procs EXCEPT !["single"].lines = @ + 1], "single")
                      /\ hist' = [hist EXCEPT !.authSeen = TRUE, !.reported = "authfailed"]
                      /\ pc' = "post"
                 ELSE /\ procs' = [procs EXCEPT !["single"].lines = @ + 1]
                      /\ hist' = hist
                      /\ pc' = "loop"
    /\ UNCHANGED <<packages, lock, thr>>
    /\ UNCHANGED <<operation, is_aur, cancelled, completed, process, uiPc, ui>>
    /\ UNCHANGED <<items, srch>>

\* readline() returned "" or raised: break
ReadEOF ==
    /\ pc = "read"
    /\ procs["single"].state \in {"closed", "exited"}
    /\ pc' = "post"
    /\ UNCHANGED qvars
    /\ UNCHANGED <<operation, is_aur, cancelled, completed, process, uiPc, procs, wk, ui, hist>>
    /\ UNCHANGED avars

\* if not self.cancelled: self.process.wait()
PostCheck ==
    /\ pc = "post"
    /\ pc' = IF cancelled THEN "report" ELSE "wait"
    /\ hist' = [hist EXCEPT !.cancelObserved = hist.cancelObserved \/ cancelled]
    /\ UNCHANGED qvars
    /\ UNCHANGED <<operation, is_aur, cancelled, completed, process, uiPc, procs, wk, ui>>
    /\ UNCHANGED avars

Wait ==
    /\ pc = "wait"
    /\ procs["single"].state = "exited"
    /\ pc' = "report"
    /\ UNCHANGED qvars
    /\ UNCHANGED <<operation, is_aur, cancelled, completed, process, uiPc, procs, wk, ui, hist>>
    /\ UNCHANGED avars

\* a plausible slip: only exit codes above 1 count as failure
ReportedStatusLenient(c, rc) ==
    IF c THEN "cancelled" ELSE IF rc \in {0, 1} THEN "success" ELSE "failed"

\* if self.cancelled ... elif self.process.returncode == 0 ... else ...
ReportedStatus(c, rc) == IF c THEN "cancelled" ELSE IF rc = 0 THEN "success" ELSE "failed"

Report ==
    /\ pc = "report"
    /\ LET st == ReportedStatus(cancelled, procs["single"].rc) IN
         /\ completed' = (completed \/ st = "success")
         /\ idleQ' = update_progress(idleQ, 1000, st)
         /\ hist' = [hist EXCEPT !.reported = st,
                                 !.cancelObserved = hist.cancelObserved \/ cancelled,
                                 !.rcRead = IF cancelled THEN @ ELSE @ \cup {"single"}]
    /\ pc' = "finally"
    /\ UNCHANGED <<packages, lock, thr>>
    /\ UNCHANGED <<operation, is_aur, cancelled, process, uiPc, procs, wk, ui>>
    /\ UNCHANGED avars

\* except Exception as e: update_progress(1.0, "Error: ...")
Except ==
    /\ pc = "except"
    /\ idleQ' = update_progress(idleQ, 1000, "error")
    /\ hist' = [hist EXCEPT !.reported = "error", !.raised = TRUE]
    /\ pc' = "finally"
    /\ UNCHANGED <<packages, lock, thr>>
    /\ UNCHANGED <<operation, is_aur, cancelled, completed, process, uiPc, procs, wk, ui>>
    /\ UNCHANGED avars

\* GLib.idle_add(self.operation_complete)
DispatchComplete(q) == Append(q, CompleteEv)

\* finally: of execute_operation
Finally ==
    /\ pc = "finally"
    /\ idleQ' = DispatchComplete(idleQ)
    /\ hist' = [hist EXCEPT !.dispatched = hist.dispatched + (Len(idleQ') - Len(idleQ))]
    /\ pc' = "done"
    /\ UNCHANGED <<packages, lock, thr>>
    /\ UNCHANGED <<operation, is_aur, cancelled, completed, process, uiPc, procs, wk, ui>>
    /\ UNCHANGED avars

(***************************************************************************)
(* InstallProgressWindow.execute_queue_install, on the worker thread       *)
(***************************************************************************)
\* the three unconditional ifs of a batch read loop: authentication marker,
\* confirmation prompt, idle window (current_time - last_progress_time > 3)
QClassify(line, stalled, current, cap, status) ==
    IF line.auth THEN Effect("auth", 1000, "Authentication failed")
    ELSE IF stalled THEN Effect("progress", Min(current + 10, cap), status)
    ELSE Effect("none", 0, "")

\* min(current_progress + 0.01, 0.5) for the primary loop, 0.95 for the alternate
StallCap(phase) == IF phase = "primary" THEN 500 ELSE 950

PhaseStatus(phase) ==
    IF phase = "primary" THEN "Installing official packages..." ELSE "Installing AUR packages..."

\* a plausible slip: only positive exit codes count as failure
SubcommandFailedPositive(rc) == rc > 0

\* if process.returncode != 0:
SubcommandFailed(rc) == rc # 0

\* a plausible slip: the final branch does not look at the cancel flag
QueueSucceededAlways(c) == TRUE

\* if not self.cancelled: (the final branch)
QueueSucceeded(c) == ~c

\* pacman_packages, aur_packages = self.queue.get_separated_packages()
QSeparate ==
    /\ pc = "q_sep"
    /\ CanAcquire("worker")
    /\ LET r == get_separated_packages(packages) IN
         wk' = [wk EXCEPT !.pac = r[1], !.aur = r[2], !.current_progress = 50]
    /\ pc' = "q_pri_gate"
    /\ UNCHANGED qvars
    /\ UNCHANGED <<operation, is_aur, cancelled, completed, process, uiPc, procs, ui, hist>>
    /\ UNCHANGED avars

\* if pacman_packages:
QPriGate ==
    /\ pc = "q_pri_gate"
    /\ IF wk.pac # <<>>
         THEN /\ idleQ' = update_progress(idleQ, wk.current_progress, PhaseStatus("primary"))
              /\ wk' = [wk EXCEPT !.phase = "primary", !.cmd = BatchCommand("primary", wk.pac)]
              /\ pc' = "q_launch"
         ELSE /\ idleQ' = idleQ
              /\ wk' = wk
              /\ pc' = "q_alt_gate"
    /\ UNCHANGED <<packages, lock, thr>>
    /\ UNCHANGED <<operation, is_aur, cancelled, completed, process, uiPc, procs, ui, hist>>
    /\ UNCHANGED avars

\* process = subprocess.Popen(...): a local, self.process is not assigned
QLaunch ==
    /\ pc = "q_launch"
    /\ \/ /\ procs' = [procs EXCEPT ![wk.phase].state = "running"]
          /\ hist' = [hist EXCEPT !.launched = hist.launched \cup {wk.phase}]
          /\ pc' = "q_loop"
       \/ /\ pc' = "q_except"        \* Popen raises OSError
          /\ UNCHANGED <<procs, hist>>
    /\ UNCHANGED qvars
    /\ UNCHANGED <<operation, is_aur, cancelled, completed, process, uiPc, wk, ui>>
    /\ UNCHANGED avars

QLoopCheck ==
    /\ pc = "q_loop"
    /\ pc' = IF cancelled THEN "q_post" ELSE "q_read"
    /\ hist' = [hist EXCEPT !.cancelObserved = hist.cancelObserved \/ cancelled]
    /\ UNCHANGED qvars
    /\ UNCHANGED <<operation, is_aur, cancelled, completed, process, uiPc, procs, wk, ui>>
    /\ UNCHANGED avars

QReadLine ==
    /\ pc = "q_read"
    /\ procs[wk.phase].state = "running"
    /\ procs[wk.phase].lines < (IF feed = NoFeed THEN MaxLines ELSE Len(feed.lines))
    /\ \E line \in (IF feed = NoFeed THEN Lines ELSE {feed.lines[procs[wk.phase].lines + 1]}),
          stalled \in BOOLEAN :
         LET eff == QClassify(line, stalled, wk.current_progress, StallCap(wk.phase),
                             PhaseStatus(wk.phase))
             q1  == append_output(idleQ, procs[wk.phase].lines + 1)
         IN IF eff.kind = "auth"
              THEN /\ idleQ' = Append(update_progress(q1, eff.frac, eff.status), AuthErrEv)
                   /\ procs' = Terminated([procs EXCEPT ![wk.phase].lines = @ + 1], wk.phase)
                   /\ hist' = [hist EXCEPT !.authSeen = TRUE, !.reported = "authfailed"]
                   /\ pc' = "q_post"
              ELSE /\ idleQ' = IF eff.kind = "progress"
                                 THEN update_progress(q1, eff.frac, eff.status)
                                 ELSE q1
                   /\ procs' = [procs EXCEPT ![wk.phase].lines = @ + 1]
                   /\ hist' = hist
                   /\ pc' = "q_loop"
    /\ UNCHANGED <<packages, lock, thr>>
    /\ UNCHANGED <<operation, is_aur, cancelled, completed, process, uiPc, wk, ui>>
    /\ UNCHANGED avars

QReadEOF ==
    /\ pc = "q_read"
    /\ procs[wk.phase].state \in {"closed", "exited"}
    /\ pc' = "q_post"
    /\ UNCHANGED qvars
    /\ UNCHANGED <<operation, is_aur, cancelled, completed, process, uiPc, procs, wk, ui, hist>>
    /\ UNCHANGED avars

\* where the worker goes once a sub-command is over without a failure:
\* current_progress += 0.45 and the alternate gate, or the final branch
AfterPhasePc(phase) == IF phase = "primary" THEN "q_alt_gate" ELSE "q_final"

AfterPhaseWk(w) ==
    IF w.phase = "primary" THEN [w EXCEPT !.current_progress = w.current_progress + 450] ELSE w

\* if not self.cancelled: process.wait() ...
QPostCheck ==
    /\ pc = "q_post"
    /\ IF cancelled
         THEN /\ pc' = AfterPhasePc(wk.phase)
              /\ wk' = AfterPhaseWk(wk)
         ELSE /\ pc' = "q_wait"
              /\ wk' = wk
    /\ hist' = [hist EXCEPT !.cancelObserved = hist.cancelObserved \/ cancelled]
    /\ UNCHANGED qvars
    /\ UNCHANGED <<operation, is_aur, cancelled, completed, process, uiPc, procs, ui>>
    /\ UNCHANGED avars

\* process.wait(); if process.returncode != 0: report, dispatch, return
QWait ==
    /\ pc = "q_wait"
    /\ procs[wk.phase].state = "exited"
    /\ IF SubcommandFailed(procs[wk.phase].rc)
         THEN /\ idleQ' = DispatchComplete(update_progress(idleQ, 1000, "failed"))
              /\ hist' = [hist EXCEPT !.reported = "failed",
                                      !.rcRead = @ \cup {wk.phase},
                                      !.dispatched = @ + 1]
              /\ wk' = wk
              /\ pc' = "q_finally"
         ELSE /\ idleQ' = idleQ
              /\ hist' = [hist EXCEPT !.rcRead = @ \cup {wk.phase}]
              /\ wk' = AfterPhaseWk(wk)
              /\ pc' = AfterPhasePc(wk.phase)
    /\ UNCHANGED <<packages, lock, thr>>
    /\ UNCHANGED <<operation, is_aur, cancelled, completed, process, uiPc, procs, ui>>
    /\ UNCHANGED avars

\* a plausible slip: the alternate gate does not look at the cancel flag
AltNeededIgnoresCancel(aur, c) == aur # <<>>

\* if aur_packages and not self.cancelled:
AltNeeded(aur, c) == aur # <<>> /\ ~c

QAltGate ==
    /\ pc = "q_alt_gate"
    /\ IF AltNeeded(wk.aur, cancelled)
         THEN /\ idleQ' = update_progress(idleQ, wk.current_progress, PhaseStatus("alternate"))
              /\ wk' = [wk EXCEPT !.phase = "alternate",
                                   !.cmd = BatchCommand("alternate", wk.aur)]
              /\ pc' = "q_launch"
         ELSE /\ idleQ' = idleQ
              /\ wk' = wk
              /\ pc' = "q_final"
    /\ hist' = [hist EXCEPT !.cancelObserved = hist.cancelObserved \/ (wk.aur # <<>> /\ cancelled)]
    /\ UNCHANGED <<packages, lock, thr>>
    /\ UNCHANGED <<operation, is_aur, cancelled, completed, process, uiPc, procs, ui>>
    /\ UNCHANGED avars

\* the final branch: completed, success event and self.queue.clear(), or "cancelled"
QFinal ==
    /\ pc = "q_final"
    /\ IF QueueSucceeded(cancelled)
         THEN /\ CanAcquire("worker")
              /\ completed' = TRUE
              /\ packages' = <<>>
              /\ idleQ' = notify_callbacks(update_progress(idleQ, 1000, "success"))
              /\ hist' = [hist EXCEPT !.reported = "success", !.runClears = @ + 1]
         ELSE /\ completed' = completed
              /\ packages' = packages
              /\ idleQ' = update_progress(idleQ, 1000, "cancelled")
              /\ hist' = [hist EXCEPT !.reported = "cancelled", !.cancelObserved = TRUE]
    /\ pc' = "q_finally"
    /\ UNCHANGED <<lock, thr>>
    /\ UNCHANGED <<operation, is_aur, cancelled, process, uiPc, procs, wk, ui>>
    /\ UNCHANGED avars

QExcept ==
    /\ pc = "q_except"
    /\ idleQ' = update_progress(idleQ, 1000, "error")
    /\ hist' = [hist EXCEPT !.reported = "error", !.raised = TRUE]
    /\ pc' = "q_finally"
    /\ UNCHANGED <<packages, lock, thr>>
    /\ UNCHANGED <<operation, is_aur, cancelled, completed, process, uiPc, procs, wk, ui>>
    /\ UNCHANGED avars

\* finally: of execute_queue_install; the return then runs execute_operation's finally
QFinally ==
    /\ pc = "q_finally"
    /\ idleQ' = DispatchComplete(idleQ)
    /\ hist' = [hist EXCEPT !.dispatched = hist.dispatched + (Len(idleQ') - Len(idleQ))]
    /\ pc' = "finally"
    /\ UNCHANGED <<packages, lock, thr>>
    /\ UNCHANGED <<operation, is_aur, cancelled, completed, process, uiPc, procs, wk, ui>>
    /\ UNCHANGED avars

(***************************************************************************)
(* AsyncOperation.run_async                                                *)
(***************************************************************************)
\* no work item has been handed to run_async
ItemsNone == <<>>

ItemIds == 1 .. MaxItems

\* ThreadPoolExecutor(max_workers=4)
max_workers == 4

ItemNew == [state |-> "new", cb |-> FALSE, outcome |-> "none", escaped |-> FALSE, got |-> <<>>]

\* GLib.idle_add(callback, result, None) / GLib.idle_add(callback, None, e)
CallbackEv(i, kind) == [type |-> "callback", item |-> i, kind |-> kind]

\* a plausible slip: no except clause, the error is left to the executor's future
WrapperNoExcept(i, outcome, cb) ==
    IF outcome = "returned"
      THEN [events |-> IF cb THEN <<CallbackEv(i, "result")>> ELSE <<>>, escaped |-> FALSE]
      ELSE [events |-> <<>>, escaped |-> TRUE]

\* wrapper(): try: result = func(...); dispatch (result, None)
\*            except Exception as e: dispatch (None, e)
Wrapper(i, outcome, cb) ==
    IF outcome = "returned"
      THEN [events |-> IF cb THEN <<CallbackEv(i, "result")>> ELSE <<>>, escaped |-> FALSE]
      ELSE [events |-> IF cb THEN <<CallbackEv(i, "error")>> ELSE <<>>, escaped |-> FALSE]

\* run_async: self.executor.submit(wrapper); returns at once
run_async(i) ==
    /\ items[i].state = "new"
    /\ \A j \in ItemIds : j < i => items[j].state # "new"
    /\ \E cb \in (IF i = 1 THEN BOOLEAN ELSE {TRUE}) :   \* the callers always pass one
         items' = [items EXCEPT ![i].state = "queued", ![i].cb = cb]
    /\ UNCHANGED <<qvars, rvars, srch, feed>>

\* a pool thread takes the item off the executor's queue
WorkerTake(i) ==
    /\ items[i].state = "queued"
    /\ Cardinality({j \in ItemIds : items[j].state = "running"}) < max_workers
    /\ items' = [items EXCEPT ![i].state = "running"]
    /\ UNCHANGED <<qvars, rvars, srch, feed>>

\* the work returns or raises inside wrapper(), on the pool thread
WorkerFinish(i) ==
    /\ items[i].state = "running"
    /\ \E outcome \in {"returned", "raised"} :
         LET w == Wrapper(i, outcome, items[i].cb) IN
           /\ items' = [items EXCEPT ![i].state = "done", ![i].outcome = outcome,
                                     ![i].escaped = w.escaped]
           /\ idleQ' = idleQ \o w.events
    /\ UNCHANGED <<packages, lock, thr, rvars, srch, feed>>

\* the main loop runs the callback (search_complete, package_details_complete)
DeliverCallback ==
    /\ uiPc = "idle"
    /\ idleQ # <<>>
    /\ Head(idleQ).type = "callback"
    /\ LET e == Head(idleQ) IN
         items' = [items EXCEPT ![e.item].got = Append(@, e.kind)]
    /\ idleQ' = Tail(idleQ)
    /\ UNCHANGED <<packages, lock, thr, rvars, srch, feed>>

(***************************************************************************)
(* MainWindow.search_packages                                              *)
(***************************************************************************)
\* no search is under way
SrchNone == [pc |-> "none"]

\* str.lower(), character by character, for the letters the inputs use
LowerChar(c) ==
    CASE c = "F" -> "f"
      [] c = "D" -> "d"
      [] c = "I" -> "i"
      [] c = "P" -> "p"
      [] c = "R" -> "r"
      [] c = "X" -> "x"
      [] OTHER   -> c

RECURSIVE LowerStr(_)
LowerStr(s) ==
    IF Len(s) = 0 THEN s
    ELSE LowerChar(SubSeq(s, 1, 1)) \o LowerStr(SubSeq(s, 2, Len(s)))

\* str.startswith, str.endswith and the in operator on strings
StartsWith(s, q) == Len(q) <= Len(s) /\ SubSeq(s, 1, Len(q)) = q
EndsWith(s, q)   == Len(q) <= Len(s) /\ SubSeq(s, Len(s) - Len(q) + 1, Len(s)) = q
Contains(s, q)   == \E i \in 1 .. (Len(s) - Len(q) + 1) : SubSeq(s, i, i + Len(q) - 1) = q

Max(a, b) == IF a > b THEN a ELSE b

\* a PackageInfo as the two parsers build it (relevance_score starts at 0)
SR(name, repo, installed, description) ==
    [name |-> name, repo |-> repo, installed |-> installed, description |-> description,
     relevance_score |-> 0]

\* a plausible slip: if instead of elif, the tiers add up
TierScoreCumulative(name_lower, desc_lower, query_lower) ==
      (IF name_lower = query_lower THEN 1000 ELSE 0)
    + (IF StartsWith(name_lower, query_lower) THEN 800 ELSE 0)
    + (IF Contains(" " \o name_lower \o " ", " " \o query_lower \o " ")
          \/ EndsWith(name_lower, query_lower) THEN 600 ELSE 0)
    + (IF Contains(name_lower, query_lower) THEN 400 ELSE 0)
    + (IF Contains(" " \o desc_lower \o " ", " " \o query_lower \o " ") THEN 200 ELSE 0)
    + (IF Contains(desc_lower, query_lower) THEN 100 ELSE 0)

\* the if / elif chain of calculate_relevance_score
TierScore(name_lower, desc_lower, query_lower) ==
    IF name_lower = query_lower THEN 1000
    ELSE IF StartsWith(name_lower, query_lower) THEN 800
    ELSE IF Contains(" " \o name_lower \o " ", " " \o query_lower \o " ")
            \/ EndsWith(name_lower, query_lower) THEN 600
    ELSE IF Contains(name_lower, query_lower) THEN 400
    ELSE IF Contains(" " \o desc_lower \o " ", " " \o query_lower \o " ") THEN 200
    ELSE IF Contains(desc_lower, query_lower) THEN 100
    ELSE 0

\* a plausible slip: the exact tier is worth no more than the prefix tier
RelevanceFlatTop(package, query) ==
    Min(TierScore(LowerStr(package.name), LowerStr(package.description), LowerStr(query)), 800)
    + (IF package.installed THEN 50 ELSE 0)
    + (IF Lower(package.repo) # "aur" THEN 30 ELSE 0)
    + Max(0, 20 - Len(package.name) \div 2)
    - (IF Len(package.name) > 20 THEN 20 ELSE 0)

\* calculate_relevance_score
calculate_relevance_score(package, query) ==
    TierScore(LowerStr(package.name), LowerStr(package.description), LowerStr(query))
    + (IF package.installed THEN 50 ELSE 0)
    + (IF Lower(package.repo) # "aur" THEN 30 ELSE 0)
    + Max(0, 20 - Len(package.name) \div 2)
    - (IF Len(package.name) > 20 THEN 20 ELSE 0)

\* position of the record with this name: unique_packages.index(seen_packages[name])
IndexOfName(seq, name) == CHOOSE i \in DOMAIN seq : seq[i].name = name

\* a plausible slip: the first record of a name always stays
DedupStepKeepFirst(unique, package) ==
    IF \A i \in DOMAIN unique : unique[i].name # package.name
      THEN Append(unique, package)
      ELSE unique

\* one iteration of the deduplication loop (seen_packages maps the names of
\* unique_packages to their records)
DedupStep(unique, package) ==
    IF \A i \in DOMAIN unique : unique[i].name # package.name
      THEN Append(unique, package)
    ELSE IF Lower(package.repo) # "aur"
            /\ Lower(unique[IndexOfName(unique, package.name)].repo) = "aur"
      THEN [unique EXCEPT ![IndexOfName(unique, package.name)] = package]
    ELSE unique

RECURSIVE DedupFrom(_, _)
DedupFrom(unique, rest) ==
    IF rest = <<>> THEN unique ELSE DedupFrom(DedupStep(unique, Head(rest)), Tail(rest))

\* a plausible slip: the combined list is returned as it is
DedupSkipped(pkgs) == pkgs

Dedup(pkgs) == DedupFrom(<<>>, pkgs)

\* a plausible slip: an equal key goes in front (the order of ties is reversed)
InsertBeforeTies(sorted, p) ==
    LET k == Cardinality({i \in DOMAIN sorted : sorted[i].relevance_score > p.relevance_score})
    IN SubSeq(sorted, 1, k) \o <<p>> \o SubSeq(sorted, k + 1, Len(sorted))

\* list.sort(key=relevance_score, reverse=True) is stable: a record goes
\* behind every record whose key is not smaller
InsertByScore(sorted, p) ==
    LET k == Cardinality({i \in DOMAIN sorted : sorted[i].relevance_score >= p.relevance_score})
    IN SubSeq(sorted, 1, k) \o <<p>> \o SubSeq(sorted, k + 1, Len(sorted))

RECURSIVE SortFrom(_, _)
SortFrom(sorted, rest) ==
    IF rest = <<>> THEN sorted ELSE SortFrom(InsertByScore(sorted, Head(rest)), Tail(rest))

SortByScore(pkgs) == SortFrom(<<>>, pkgs)

\* a plausible slip: the scoring loop is left out, every score stays 0
ScoredNever(pkgs, query) == pkgs

\* for package in unique_packages: self.calculate_relevance_score(package, query)
Scored(pkgs, query) ==
    [i \in DOMAIN pkgs |->
        [pkgs[i] EXCEPT !.relevance_score = calculate_relevance_score(pkgs[i], query)]]

\* what "pacman -Ss" and "yay -Ss --aur" may list (parsed); pacman takes the
\* repository name from the text, so a local repository may be called "aur"
PacPool ==
    { SR("firefox", "core", TRUE, "web browser"),
      SR("firefox", "aur", FALSE, "local build"),
      SR("firefox-developer-edition-i18n", "extra", TRUE, "language pack"),
      SR("kde-fox", "extra", FALSE, "a fox tool for Firefox"),
      SR("red-fox", "extra", FALSE, "foxy firefoxes") }

AurPool ==
    { SR("firefox", "AUR", FALSE, ""),
      SR("firefox-developer-edition", "AUR", FALSE, "dev"),
      SR("Red-Fox", "AUR", TRUE, "a fox") }

Queries == {"fox", "Firefox", "firefox-developer-edition"}

SeqsUpTo(S, n) == UNION {[1 .. k -> S] : k \in 0 .. n}

SrchStart(q, po, ao) ==
    [pc |-> "pacman", query |-> q, pacOut |-> po, aurOut |-> ao,
     pacFailed |-> FALSE, aurFailed |-> FALSE,
     packages |-> <<>>, unique |-> <<>>, result |-> <<>>, raised |-> FALSE]

\* a plausible slip: the exception of a search command leaves search_packages
OnSearchErrorRaises(s, after) == [s EXCEPT !.pc = "done", !.raised = TRUE]

\* except: pass
OnSearchError(s, after) == [s EXCEPT !.pc = after]

\* subprocess.run(['pacman', '-Ss', query], ...) and packages.extend(parse(...)),
\* or an exception (pacman missing, timeout)
SearchPacman ==
    /\ srch.pc = "pacman"
    /\ \/ srch' = [srch EXCEPT !.pc = "aur", !.packages = @ \o srch.pacOut]
       \/ srch' = OnSearchError([srch EXCEPT !.pacFailed = TRUE], "aur")
    /\ UNCHANGED <<qvars, rvars, items, feed>>

\* subprocess.run(['yay', '-Ss', '--aur', query], ...), the same way
SearchAur ==
    /\ srch.pc = "aur"
    /\ \/ srch' = [srch EXCEPT !.pc = "dedup", !.packages = @ \o srch.aurOut]
       \/ srch' = OnSearchError([srch EXCEPT !.aurFailed = TRUE], "dedup")
    /\ UNCHANGED <<qvars, rvars, items, feed>>

\* the seen_packages / unique_packages loop
SearchDedup ==
    /\ srch.pc = "dedup"
    /\ srch' = [srch EXCEPT !.pc = "score", !.unique = Dedup(srch.packages)]
    /\ UNCHANGED <<qvars, rvars, items, feed>>

SearchScore ==
    /\ srch.pc = "score"
    /\ srch' = [srch EXCEPT !.pc = "sort", !.unique = Scored(srch.unique, srch.query)]
    /\ UNCHANGED <<qvars, rvars, items, feed>>

\* unique_packages.sort(...); return unique_packages, query
SearchSort ==
    /\ srch.pc = "sort"
    /\ srch' = [srch EXCEPT !.pc = "done", !.result = SortByScore(srch.unique)]
    /\ UNCHANGED <<qvars, rvars, items, feed>>

(***************************************************************************)
(* Fixed outputs of the external process of a single operation             *)
(***************************************************************************)
\* the phase-header branch taken for a lower-cased line: the first phrase of
\* the elif chain the line contains, 0 when it contains none
HeaderIndex(line_lower) ==
    LET H == {k \in DOMAIN HeaderTable : Contains(line_lower, HeaderTable[k].phrase)}
    IN IF H = {} THEN 0 ELSE CHOOSE k \in H : \A m \in H : k <= m

\* a plausible slip: the two keyword tests in the other order
KwOfInstallingFirst(line_lower) ==
    IF Contains(line_lower, "installing") THEN "installing"
    ELSE IF Contains(line_lower, "downloading") THEN "downloading" ELSE ""

\* if "downloading" in line.lower(): ... elif "installing" in line.lower(): ...
KwOf(line_lower) ==
    IF Contains(line_lower, "downloading") THEN "downloading"
    ELSE IF Contains(line_lower, "installing") THEN "installing" ELSE ""

\* a line given by its text, without "(<digits>%)" marker and without size
\* pair, classified by the substring tests of the read loop
TextLine(text) ==
    LET low == LowerStr(text)
    IN Line(Contains(text, "sudo: a password is required")
                \/ Contains(text, "sudo: a terminal is required"),
            -1,
            KwOf(low),
            NoSize,
            HeaderIndex(low),
            Contains(low, ":: proceed with installation?"))
       @@ [text |-> text]

\* the same text with "(p%)" in it: percent = int(match.group(1)) / 100.0
PctLine(text, p) == [TextLine(text) EXCEPT !.pct = p]

\* the same text with a size pair in it
SizeLine(text, size) == [TextLine(text) EXCEPT !.size = size]

\* the ten phase headers in their canonical order, as pacman words them
HeaderTexts ==
    << "resolving dependencies...",
       "checking dependencies...",
       ":: Retrieving packages...",
       "checking keyring...",
       "loading package files...",
       "checking for conflicts...",
       "checking available disk space...",
       ":: Running pre-transaction hooks...",
       ":: Processing package changes...",
       ":: Running post-transaction hooks..." >>

HeaderScript == [k \in DOMAIN HeaderTexts |-> TextLine(HeaderTexts[k])]

\* lines with a size pair or a percentage marker
LSizeMiB     == Line(FALSE, -1, "", Size(15, "MiB", 100, "MiB"), 0, FALSE)      \* 1.5MiB/10MiB
LSizeMixed   == Line(FALSE, -1, "", Size(5120, "KiB", 10, "MiB"), 0, FALSE)     \* 512.0KiB/1.0MiB
LSizeGiB     == Line(FALSE, -1, "", Size(5, "GiB", 10, "GiB"), 0, FALSE)        \* 0.5GiB/1.0GiB
LSizeOver    == Line(FALSE, -1, "", Size(100, "MiB", 15, "MiB"), 0, FALSE)      \* 10MiB/1.5MiB
LSizeZero    == Line(FALSE, -1, "", Size(15, "MiB", 0, "MiB"), 0, FALSE)        \* 1.5MiB/0MiB
LSizeTiB     == Line(FALSE, -1, "", Size(15, "TiB", 100, "TiB"), 0, FALSE)      \* 1.5TiB/10TiB
LSizeAuth    == Line(TRUE,  -1, "", Size(15, "MiB", 100, "MiB"), 0, FALSE)
LSizePct     == Line(FALSE, 20, "downloading", Size(15, "MiB", 100, "MiB"), 0, FALSE)
LPctInst     == Line(FALSE, 100, "installing", NoSize, 0, FALSE)                \* installing (100%)
LPctBig      == Line(FALSE, 250, "", NoSize, 0, FALSE)                          \* (250%)

\* percentage markers with and without the two keywords
LPctDown     == PctLine("Downloading firefox", 40)
LPctBoth     == PctLine("Installing and downloading", 40)
LPctOther    == PctLine("upgrading firefox", 100)
LPctZero     == PctLine("Installing firefox", 0)
LPctAuth     == PctLine("sudo: a password is required, Downloading", 40)

\* lines that meet the condition of more than one rule
LPctHeader     == PctLine("checking dependencies", 50)
LSizeHeader    == SizeLine(":: Retrieving packages", Size(15, "MiB", 100, "MiB"))
LSizeTiBPrompt == SizeLine(":: Proceed with installation? [Y/n]", Size(15, "TiB", 100, "TiB"))
LHeaderPrompt  == TextLine("checking keyring :: Proceed with installation? [Y/n]")
LPromptText    == TextLine(":: Proceed with installation? [Y/n]")

FeedLines ==
    { LSizeMiB, LSizeMixed, LSizeGiB, LSizeOver, LSizeZero, LSizeTiB, LSizeAuth, LSizePct,
      LPctInst, LPctBig, LPlain,
      LPctDown, LPctBoth, LPctOther, LPctZero, LPctAuth,
      LPctHeader, LSizeHeader, LSizeTiBPrompt, LHeaderPrompt, LPromptText }

\* the lines that follow the first one of a fixed output
FollowLines == {LPlain, LSizeMixed, LPctBoth, LHeaderPrompt, LPctAuth}

\* the ten headers, and any line followed by up to MaxFeed - 1 further lines
Scripts ==
    {HeaderScript}
        \cup {<<l>> \o t : l \in FeedLines,
                            t \in UNION {[1 .. k -> FollowLines] : k \in 0 .. (MaxFeed - 1)}}

(***************************************************************************)
(* Specifications                                                          *)
(***************************************************************************)
Pkg(n, r) == [name |-> n, repo |-> r]

\* queue contents a batch run may find (each reachable through add_package)
QueueSamples ==
    { <<>>,
      <<Pkg("firefox", "core")>>,
      <<Pkg("yay-bin", "AUR")>>,
      <<Pkg("firefox", "core"), Pkg("yay-bin", "AUR")>>,
      <<Pkg("yay-bin", "Popular"), Pkg("firefox", "core")>> }

\* state after InstallProgressWindow.__init__ has started the worker thread
InitRun ==
    /\ operation \in Kinds
    /\ is_aur \in (IF operation \in {"install", "update"} THEN BOOLEAN ELSE {FALSE})
    /\ packages \in (IF operation = "queue_install" THEN QueueSamples
                     ELSE {<<Pkg("firefox", "core")>>})
    /\ lock = NoOwner
    /\ thr = [t \in Threads |-> ThrIdle]
    /\ idleQ = <<>>
    /\ cancelled = FALSE
    /\ completed = FALSE
    /\ process = NoProc
    /\ pc = "start"
    /\ uiPc = "idle"
    /\ procs = [p \in ProcIds |-> ProcNone]
    /\ wk = WkInit
    /\ ui = UiInit
    /\ hist = HistInit
    /\ items = ItemsNone
    /\ srch = SrchNone
    /\ feed = NoFeed

NextRun ==
    \/ Start \/ Launch \/ LoopCheck \/ ReadLine \/ ReadEOF \/ PostCheck \/ Wait
    \/ Report \/ Except \/ Finally
    \/ QSeparate \/ QPriGate \/ QLaunch \/ QLoopCheck \/ QReadLine \/ QReadEOF
    \/ QPostCheck \/ QWait \/ QAltGate \/ QFinal \/ QExcept \/ QFinally
    \/ MainDispatch
    \/ CancelClick \/ CancelTerminate \/ CancelWait \/ CancelFinish
    \/ \E p \in ProcIds : ProcCloseStdout(p)
    \/ \E p \in ProcIds : ProcExit(p)

Spec == InitRun /\ [][NextRun]_vars

\* a session with an empty queue, its callers, and no operation window
InitQueue ==
    /\ packages = <<>>
    /\ lock = NoOwner
    /\ thr = [t \in Threads |-> ThrIdle]
    /\ idleQ = <<>>
    /\ operation = "none"
    /\ is_aur = FALSE
    /\ cancelled = FALSE
    /\ completed = FALSE
    /\ process = NoProc
    /\ pc = "none"
    /\ uiPc = "idle"
    /\ procs = [p \in ProcIds |-> ProcNone]
    /\ wk = WkInit
    /\ ui = UiInit
    /\ hist = HistInit
    /\ items = ItemsNone
    /\ srch = SrchNone
    /\ feed = NoFeed

NextQueue ==
    \/ \E t \in Threads :
         \/ Call(t) \/ Acquire(t) \/ AddCheck(t) \/ AddAppend(t)
         \/ remove_package(t) \/ clear(t) \/ Separate(t) \/ Release(t)
    \/ MainDispatch

SpecQueue == InitQueue /\ [][NextQueue]_vars

\* a session that hands work to the shared AsyncOperation
InitAsync ==
    /\ packages = <<>>
    /\ lock = NoOwner
    /\ thr = [t \in Threads |-> ThrIdle]
    /\ idleQ = <<>>
    /\ operation = "none"
    /\ is_aur = FALSE
    /\ cancelled = FALSE
    /\ completed = FALSE
    /\ process = NoProc
    /\ pc = "none"
    /\ uiPc = "idle"
    /\ procs = [p \in ProcIds |-> ProcNone]
    /\ wk = WkInit
    /\ ui = UiInit
    /\ hist = HistInit
    /\ items = [i \in ItemIds |-> ItemNew]
    /\ srch = SrchNone
    /\ feed = NoFeed

NextAsync ==
    \/ \E i \in ItemIds : run_async(i) \/ WorkerTake(i) \/ WorkerFinish(i)
    \/ DeliverCallback

SpecAsync == InitAsync /\ [][NextAsync]_vars

\* one single operation of any kind, with either value of the source flag and
\* either package; nobody cancels
InitCommand ==
    /\ operation \in Kinds \ {"queue_install"}
    /\ is_aur \in BOOLEAN
    /\ packages \in {<<[name |-> n, repo |-> "core"]>> : n \in Names}
    /\ lock = NoOwner
    /\ thr = [t \in Threads |-> ThrIdle]
    /\ idleQ = <<>>
    /\ cancelled = FALSE
    /\ completed = FALSE
    /\ process = NoProc
    /\ pc = "start"
    /\ uiPc = "idle"
    /\ procs = [p \in ProcIds |-> ProcNone]
    /\ wk = WkInit
    /\ ui = UiInit
    /\ hist = HistInit
    /\ items = ItemsNone
    /\ srch = SrchNone
    /\ feed = NoFeed

NextCommand ==
    \/ Start \/ Launch \/ LoopCheck \/ ReadLine \/ ReadEOF \/ PostCheck \/ Wait
    \/ Report \/ Except \/ Finally
    \/ MainDispatch
    \/ ProcCloseStdout("single")
    \/ ProcExit("single")

SpecCommand == InitCommand /\ [][NextCommand]_vars

\* one install whose external process prints a fixed output; nobody cancels
InitFeed ==
    /\ operation = "install"
    /\ is_aur = FALSE
    /\ packages = <<Pkg("firefox", "core")>>
    /\ lock = NoOwner
    /\ thr = [t \in Threads |-> ThrIdle]
    /\ idleQ = <<>>
    /\ cancelled = FALSE
    /\ completed = FALSE
    /\ process = NoProc
    /\ pc = "start"
    /\ uiPc = "idle"
    /\ procs = [p \in ProcIds |-> ProcNone]
    /\ wk = WkInit
    /\ ui = UiInit
    /\ hist = HistInit
    /\ items = ItemsNone
    /\ srch = SrchNone
    /\ \E sc \in Scripts : feed = [NoFeed EXCEPT !.lines = sc]

NextFeed ==
    \/ Start \/ Launch \/ LoopCheck \/ ReadLine \/ ReadEOF \/ PostCheck \/ Wait
    \/ Report \/ Except \/ Finally
    \/ MainDispatch
    \/ ProcCloseStdout("single")
    \/ ProcExit("single")

SpecFeed == InitFeed /\ [][NextFeed]_vars

\* first lines of the fixed outputs a batch sub-command prints
BatchLines == {LPctInst, LSizeMiB, HeaderScript[3], LPlain, LPctAuth, LPromptText}

BatchScripts == {<<l>> : l \in BatchLines} \cup {<<LPlain, l>> : l \in BatchLines}

\* a queue installation whose sub-commands each print one fixed output
InitFeedBatch ==
    /\ operation = "queue_install"
    /\ is_aur = FALSE
    /\ packages \in QueueSamples \ {<<>>}
    /\ lock = NoOwner
    /\ thr = [t \in Threads |-> ThrIdle]
    /\ idleQ = <<>>
    /\ cancelled = FALSE
    /\ completed = FALSE
    /\ process = NoProc
    /\ pc = "start"
    /\ uiPc = "idle"
    /\ procs = [p \in ProcIds |-> ProcNone]
    /\ wk = WkInit
    /\ ui = UiInit
    /\ hist = HistInit
    /\ items = ItemsNone
    /\ srch = SrchNone
    /\ \E sc \in BatchScripts : feed = [NoFeed EXCEPT !.lines = sc]

NextFeedBatch ==
    \/ Start
    \/ QSeparate \/ QPriGate \/ QLaunch \/ QLoopCheck \/ QReadLine \/ QReadEOF
    \/ QPostCheck \/ QWait \/ QAltGate \/ QFinal \/ QExcept \/ QFinally
    \/ Finally
    \/ MainDispatch
    \/ ProcCloseStdout("primary") \/ ProcCloseStdout("alternate")
    \/ ProcExit("primary") \/ ProcExit("alternate")

SpecFeedBatch == InitFeedBatch /\ [][NextFeedBatch]_vars

\* PackageRow / PackageDetailPage.on_queue_clicked while a run is in progress:
\* the controlling context calls self.queue.add_package(self.package)
on_queue_clicked ==
    /\ uiPc = "idle"
    /\ pc \notin {"none", "done"}
    /\ CanAcquire("ui")
    /\ \E pkg \in PkgInputs :
         LET found == NamePresent(packages, pkg) IN
           /\ packages' = AddResult(packages, pkg, found)
           /\ idleQ' = IF found THEN idleQ ELSE notify_callbacks(idleQ)
    /\ UNCHANGED <<lock, thr>>
    /\ UNCHANGED rvars
    /\ UNCHANGED avars

\* a queue installation during which the user may add packages to the queue
InitBatchAdd ==
    /\ operation = "queue_install"
    /\ is_aur = FALSE
    /\ packages \in QueueSamples \ {<<>>}
    /\ lock = NoOwner
    /\ thr = [t \in Threads |-> ThrIdle]
    /\ idleQ = <<>>
    /\ cancelled = FALSE
    /\ completed = FALSE
    /\ process = NoProc
    /\ pc = "start"
    /\ uiPc = "idle"
    /\ procs = [p \in ProcIds |-> ProcNone]
    /\ wk = WkInit
    /\ ui = UiInit
    /\ hist = HistInit
    /\ items = ItemsNone
    /\ srch = SrchNone
    /\ feed = [NoFeed EXCEPT !.lines = <<LPlain>>]

NextBatchAdd ==
    \/ NextFeedBatch
    \/ on_queue_clicked

SpecBatchAdd == InitBatchAdd /\ [][NextBatchAdd]_vars

\* a single install or a queue installation that the user may cancel; the
\* process prints one line at most, and nothing is assumed about when the
\* process prints or exits by itself
InitCancel ==
    /\ operation \in {"install", "queue_install"}
    /\ is_aur = FALSE
    /\ packages = <<Pkg("firefox", "core")>>
    /\ lock = NoOwner
    /\ thr = [t \in Threads |-> ThrIdle]
    /\ idleQ = <<>>
    /\ cancelled = FALSE
    /\ completed = FALSE
    /\ process = NoProc
    /\ pc = "start"
    /\ uiPc = "idle"
    /\ procs = [p \in ProcIds |-> ProcNone]
    /\ wk = WkInit
    /\ ui = UiInit
    /\ hist = HistInit
    /\ items = ItemsNone
    /\ srch = SrchNone
    /\ feed = [NoFeed EXCEPT !.lines = <<LPlain>>]

\* the steps the worker thread takes by itself, once they are possible
WorkerStep ==
    \/ Start \/ Launch \/ LoopCheck \/ ReadEOF \/ PostCheck \/ Wait
    \/ Report \/ Except \/ Finally
    \/ QSeparate \/ QPriGate \/ QLaunch \/ QLoopCheck \/ QReadEOF
    \/ QPostCheck \/ QWait \/ QAltGate \/ QFinal \/ QExcept \/ QFinally

\* the rest of on_cancel_clicked, once the button was clicked
CancelStep == CancelTerminate \/ CancelWait \/ CancelFinish

\* threads and the main loop are scheduled; the external process is free to
\* stay silent and alive
SpecCancelLive ==
    /\ InitCancel /\ [][NextRun]_vars
    /\ WF_vars(WorkerStep) /\ WF_vars(CancelStep) /\ WF_vars(MainDispatch)

(***************************************************************************)
(* MainWindow: the search box                                              *)
(***************************************************************************)
MaxEdits == 3         \* edits of the search box

\* texts the user may leave in the search box
BoxTexts == {"", " f", "fox", "firefox "}

NoTimer == [set |-> FALSE, query |-> ""]

\* str.strip(), for blanks
RECURSIVE LStrip(_)
LStrip(s) == IF Len(s) > 0 /\ SubSeq(s, 1, 1) = " " THEN LStrip(SubSeq(s, 2, Len(s))) ELSE s

RECURSIVE RStrip(_)
RStrip(s) ==
    IF Len(s) > 0 /\ SubSeq(s, Len(s), Len(s)) = " " THEN RStrip(SubSeq(s, 1, Len(s) - 1)) ELSE s

Strip(s) == RStrip(LStrip(s))

\* what the two search commands list for a query: the records of a fixed
\* catalogue whose name holds the query
BoxCatalogue ==
    << SR("firefox", "AUR", FALSE, ""),
       SR("kde-fox", "extra", FALSE, "a fox tool"),
       SR("firefox", "core", TRUE, "web browser") >>

Found(query) ==
    SelectSeq(BoxCatalogue, LAMBDA r : Contains(LowerStr(r.name), LowerStr(query)))

\* search_packages(query) as a whole: unique_packages after the sort
search_packages(query) == SortByScore(Scored(Dedup(Found(query)), query))

\* MainWindow as the search box sees it: the pending debounce timer, the
\* query typed last, self.packages, and the query of each submitted search
BoxStart ==
    [pc |-> "box", timer |-> NoTimer, last |-> "", shown |-> <<>>,
     queryOf |-> [i \in ItemIds |-> ""], edits |-> 0]

\* on_search_changed: the pending timer is removed; a query of two characters
\* or more arms a new one, a shorter query empties the list
on_search_changed ==
    /\ srch.pc = "box"
    /\ uiPc = "idle"
    /\ srch.edits < MaxEdits
    /\ \E text \in BoxTexts :
         LET query == Strip(text) IN
           srch' = IF Len(query) >= 2
                     THEN [srch EXCEPT !.timer = [set |-> TRUE, query |-> query],
                                       !.last = query, !.edits = @ + 1]
                     ELSE [srch EXCEPT !.timer = NoTimer,
                                       !.last = query, !.edits = @ + 1,
                                       !.shown = <<>>]
    /\ UNCHANGED <<qvars, rvars, items, feed>>

\* the timer fires: perform_search hands search_packages to run_async
perform_search ==
    /\ srch.pc = "box"
    /\ uiPc = "idle"
    /\ srch.timer.set
    /\ \E i \in ItemIds :
         /\ items[i].state = "new"
         /\ \A j \in ItemIds : j < i => items[j].state # "new"
         /\ items' = [items EXCEPT ![i].state = "queued", ![i].cb = TRUE]
         /\ srch' = [srch EXCEPT !.timer = NoTimer, !.queryOf[i] = srch.timer.query]
    /\ UNCHANGED <<qvars, rvars, feed>>

\* the main loop runs search_complete(result, error); update_package_list
\* stores the packages of the result
search_complete ==
    /\ srch.pc = "box"
    /\ uiPc = "idle"
    /\ idleQ # <<>>
    /\ Head(idleQ).type = "callback"
    /\ LET e == Head(idleQ) IN
         /\ items' = [items EXCEPT ![e.item].got = Append(@, e.kind)]
         /\ srch' = IF e.kind = "error" THEN srch
                     ELSE [srch EXCEPT !.shown = search_packages(srch.queryOf[e.item])]
    /\ idleQ' = Tail(idleQ)
    /\ UNCHANGED <<packages, lock, thr, rvars, feed>>

\* the main window with an empty search box and no search under way
InitBox ==
    /\ packages = <<>>
    /\ lock = NoOwner
    /\ thr = [t \in Threads |-> ThrIdle]
    /\ idleQ = <<>>
    /\ operation = "none"
    /\ is_aur = FALSE
    /\ cancelled = FALSE
    /\ completed = FALSE
    /\ process = NoProc
    /\ pc = "none"
    /\ uiPc = "idle"
    /\ procs = [p \in ProcIds |-> ProcNone]
    /\ wk = WkInit
    /\ ui = UiInit
    /\ hist = HistInit
    /\ items = [i \in ItemIds |-> ItemNew]
    /\ srch = BoxStart
    /\ feed = NoFeed

NextBox ==
    \/ on_search_changed
    \/ perform_search
    \/ \E i \in ItemIds : WorkerTake(i) \/ WorkerFinish(i)
    \/ search_complete

SpecBox == InitBox /\ [][NextBox]_vars

\* one call of search_packages on a pool thread
InitSearch ==
    /\ packages = <<>>
    /\ lock = NoOwner
    /\ thr = [t \in Threads |-> ThrIdle]
    /\ idleQ = <<>>
    /\ operation = "none"
    /\ is_aur = FALSE
    /\ cancelled = FALSE
    /\ completed = FALSE
    /\ process = NoProc
    /\ pc = "none"
    /\ uiPc = "idle"
    /\ procs = [p \in ProcIds |-> ProcNone]
    /\ wk = WkInit
    /\ ui = UiInit
    /\ hist = HistInit
    /\ items = ItemsNone
    /\ \E q \in Queries, po \in SeqsUpTo(PacPool, MaxResults), ao \in SeqsUpTo(AurPool, MaxResults) :
          srch = SrchStart(q, po, ao)
    /\ feed = NoFeed

NextSearch == SearchPacman \/ SearchAur \/ SearchDedup \/ SearchScore \/ SearchSort

SpecSearch == InitSearch /\ [][NextSearch]_vars

\* records chosen for the scores of the late tiers under the query "fox":
\* short installed primary records against long, not installed AUR records
ScorePacPool ==
    { SR("ff", "extra", TRUE, "foxy tool"),
      SR("vi", "core", TRUE, "editor"),
      SR("ed", "core", TRUE, "a fox") }

ScoreAurPool ==
    { SR("very-long-browser-package", "AUR", FALSE, "a fox tool"),
      SR("another-long-editor-package", "AUR", FALSE, "firefoxes"),
      SR("long-package-with-foxes-inside", "AUR", FALSE, "") }

\* one call of search_packages for "fox" over these records
InitScore ==
    /\ packages = <<>>
    /\ lock = NoOwner
    /\ thr = [t \in Threads |-> ThrIdle]
    /\ idleQ = <<>>
    /\ operation = "none"
    /\ is_aur = FALSE
    /\ cancelled = FALSE
    /\ completed = FALSE
    /\ process = NoProc
    /\ pc = "none"
    /\ uiPc = "idle"
    /\ procs = [p \in ProcIds |-> ProcNone]
    /\ wk = WkInit
    /\ ui = UiInit
    /\ hist = HistInit
    /\ items = ItemsNone
    /\ \E po \in SeqsUpTo(ScorePacPool, MaxResults), ao \in SeqsUpTo(ScoreAurPool, MaxResults) :
          srch = SrchStart("fox", po, ao)
    /\ feed = NoFeed

SpecScore == InitScore /\ [][NextSearch]_vars

(***************************************************************************)
(* Properties of the PackageQueue (checked under SpecQueue)                *)
(***************************************************************************)
Count(seq, x) == Cardinality({i \in DOMAIN seq : seq[i] = x})

Mutating(t) == thr[t].op \in {"add", "remove", "clear"}
               /\ thr[t].pc \in {"add", "add_append", "remove", "clear", "unlock"}

\* C1: after any sequence of add_package / remove_package / clear calls on a
\* queue that starts empty, no two records of the queue have the same name.
C1_NoDuplicateNames ==
    \A i, j \in DOMAIN packages : i # j => packages[i].name # packages[j].name

\* both names are queued and a further add of a queued name has been refused
C1_Witness ==
    /\ Len(packages) = 2
    /\ \E t \in Threads : thr[t].op = "add" /\ thr[t].pc = "unlock" /\ thr[t].found

\* C2: add_package(p) while a record with p's name is queued changes nothing:
\* contents, order and length of the queue are the same after the call.
C2_AddPresentIsNoOp ==
    [][\A t \in Threads :
          ( /\ thr[t].op = "add"
            /\ thr[t].pc \in {"add", "add_append"}
            /\ thr'[t].pc # thr[t].pc
            /\ \E i \in DOMAIN packages : packages[i].name = thr[t].arg.name )
          => packages' = packages]_vars

\* an add of a queued name, with another repository, has just returned nothing new
C2_Witness ==
    \E t \in Threads :
        /\ thr[t].op = "add" /\ thr[t].pc = "unlock" /\ thr[t].found
        /\ \E i \in DOMAIN packages : /\ packages[i].name = thr[t].arg.name
                                      /\ packages[i].repo # thr[t].arg.repo

\* C3: get_separated_packages returns a partition of the queue: every member is
\* in exactly one of the two lists, no list holds a stranger, the lengths add up.
C3_SeparatedIsPartition ==
    \A t \in Threads :
        (thr[t].op = "sep" /\ thr[t].pc = "unlock") =>
            LET pac == thr[t].res[1]
                aur == thr[t].res[2]
            IN /\ Len(pac) + Len(aur) = Len(packages)
               /\ \A i \in DOMAIN packages :
                      Count(pac, packages[i]) + Count(aur, packages[i]) = 1
               /\ Range(pac) \cup Range(aur) \subseteq Range(packages)

\* a call has split a queue with members of both sources
C3_Witness ==
    \E t \in Threads :
        /\ thr[t].op = "sep" /\ thr[t].pc = "unlock"
        /\ thr[t].res[1] # <<>> /\ thr[t].res[2] # <<>>

\* C4: with concurrent callers at most one is inside a mutating critical
\* section, and the queue has no duplicate name in any reachable state.
C4_MutualExclusionNoDup ==
    /\ Cardinality({t \in Threads : Mutating(t)}) <= 1
    /\ \A t \in Threads : Mutating(t) => lock = t
    /\ \A i \in DOMAIN packages : \A j \in DOMAIN packages :
           packages[i].name = packages[j].name => i = j

\* one caller is about to append a name while another waits to add the same name
C4_Witness ==
    \E t, u \in Threads :
        /\ t # u
        /\ thr[t].op = "add" /\ thr[t].pc = "add_append" /\ ~thr[t].found
        /\ thr[u].op = "add" /\ thr[u].pc = "acquire"
        /\ thr[u].arg.name = thr[t].arg.name

(***************************************************************************)
(* Properties of a run (checked under Spec)                                *)
(***************************************************************************)
\* the cancel button was clicked before the worker had reported anything final
CancelledInFlight == hist.cancelAt # "none" /\ hist.reportedAtCancel = "none"

\* the cancel button was clicked after the worker had reported its outcome
CancelledLate == hist.cancelAt # "none" /\ hist.reportedAtCancel \in {"success", "failed"}

RunOver == pc = "done" /\ uiPc = "idle"

\* C5: a cancel requested while a single-package install is in flight makes the
\* run end as Cancelled, and the process launched for the run gets a terminate
\* signal (here: no launched process is left alive without one).
C5_CancelInFlightCancels ==
    (operation = "install" /\ RunOver /\ CancelledInFlight /\ ~hist.raised) =>
        /\ hist.reported = "cancelled"
        /\ \A p \in hist.launched : procs[p].term \/ procs[p].state = "exited"

\* C6, as stated: a batch run whose primary sub-command exits non-zero never
\* launches the alternate sub-command and its outcome is Failed (the case
\* looked at: the process had exited by itself before any cancel request).
C6_PrimaryFailureFails ==
    (operation = "queue_install" /\ RunOver
        /\ procs["primary"].state = "exited" /\ procs["primary"].rc # 0
        /\ "primary" \notin hist.aliveAtCancel) =>
        /\ "alternate" \notin hist.launched
        /\ hist.reported = "failed"
        /\ ~completed
        /\ hist.runClears = 0

\* C6, amended: a batch run whose primary sub-command exits non-zero never
\* launches the alternate sub-command, is not marked completed and does not
\* clear the queue; its outcome is Failed when the worker read the exit code,
\* and Cancelled when it saw the cancel flag before waiting for the process.
C6_PrimaryFailureNeverContinues ==
    (operation = "queue_install"
        /\ procs["primary"].state = "exited" /\ procs["primary"].rc # 0) =>
        /\ "alternate" \notin hist.launched
        /\ ~completed
        /\ hist.runClears = 0
        /\ pc = "done" =>
              hist.reported = (IF "primary" \in hist.rcRead THEN "failed" ELSE "cancelled")

\* a batch with alternate packages pending ended Failed on the primary's exit code
C6_Witness ==
    /\ operation = "queue_install" /\ pc = "done"
    /\ procs["primary"].state = "exited" /\ procs["primary"].rc # 0
    /\ "primary" \in hist.rcRead
    /\ wk.aur # <<>>
    /\ hist.reported = "failed"

\* C7: an output line with an authentication-failure phrase makes the run's
\* outcome AuthenticationFailed, distinct from Failed and Succeeded.
C7_AuthLineYieldsAuthFailed ==
    (pc = "done" /\ hist.authSeen /\ ~cancelled) =>
        /\ hist.reported = "authfailed"
        /\ ~completed

\* C8: every run dispatches operation_complete exactly once.
C8_CompleteDispatchedOnce ==
    pc = "done" => hist.dispatched = 1

\* C9: a cancel request after the worker has determined Succeeded or Failed is
\* a no-op: no "cancelled" status is emitted and the status shown stays.
C9_LateCancelIsNoOp ==
    CancelledLate =>
        /\ ~hist.cancelStatusByUi
        /\ (RunOver /\ idleQ = <<>>) => ui.status = hist.reported

\* every sub-command that was needed was awaited and exited with code 0
NeededSucceeded ==
    /\ wk.pac # <<>> => ("primary" \in hist.rcRead /\ procs["primary"].rc = 0)
    /\ wk.aur # <<>> => ("alternate" \in hist.rcRead /\ procs["alternate"].rc = 0)

\* C10: the run clears the queue if and only if it is a batch run that ends in
\* overall success: every needed sub-command exited 0, the worker never saw
\* the cancel flag set, and nothing raised.
C10_ClearsIffBatchSuccess ==
    /\ hist.runClears > 0 =>
          /\ operation = "queue_install"
          /\ hist.runClears = 1
          /\ NeededSucceeded
          /\ ~hist.cancelObserved
          /\ ~hist.raised
          /\ completed
    /\ (pc = "done" /\ operation = "queue_install" /\ NeededSucceeded
           /\ ~hist.cancelObserved /\ ~hist.raised) =>
          (hist.runClears = 1 /\ packages = <<>>)
    /\ (pc = "done" /\ hist.runClears = 0) =>
          IF operation = "queue_install"
            THEN Len(packages) = Len(wk.pac) + Len(wk.aur)
            ELSE packages # <<>>

\* a batch with packages of both sources succeeded and emptied the queue
C10_Witness ==
    /\ operation = "queue_install" /\ pc = "done"
    /\ wk.pac # <<>> /\ wk.aur # <<>>
    /\ hist.runClears = 1
    /\ packages = <<>>

\* C11: in a batch run the alternate-source process is launched only after the
\* primary-source process has ended its output and its exit has been awaited:
\* the two are never alive together, and no primary line is read (logged)
\* once the alternate has been launched.
C11_SubcommandsSequential ==
    /\ []( /\ ~(Alive("primary") /\ Alive("alternate"))
           /\ ("alternate" \in hist.launched /\ "primary" \in hist.launched) =>
                  /\ procs["primary"].state = "exited"
                  /\ "primary" \in hist.rcRead )
    /\ [][ "alternate" \in hist.launched =>
              procs'["primary"].lines = procs["primary"].lines ]_vars

\* both sub-commands of a batch have run and the alternate has printed a line
C11_Witness ==
    /\ operation = "queue_install"
    /\ hist.launched = {"primary", "alternate"}
    /\ procs["primary"].lines > 0
    /\ procs["alternate"].lines > 0

(***************************************************************************)
(* Properties of AsyncOperation (checked under SpecAsync)                  *)
(***************************************************************************)
PendingFor(i) ==
    Cardinality({k \in DOMAIN idleQ : idleQ[k].type = "callback" /\ idleQ[k].item = i})

\* C12: every work item submitted with a callback gets exactly one completion
\* on the controlling context, (result, None) if the work returned and
\* (None, error) if it raised; the exception does not leave the wrapper.
C12_OneCompletionPerItem ==
    \A i \in ItemIds :
        /\ ~items[i].escaped
        /\ items[i].state # "done" => (items[i].got = <<>> /\ PendingFor(i) = 0)
        /\ (items[i].state = "done" /\ items[i].cb) =>
              /\ Len(items[i].got) + PendingFor(i) = 1
              /\ PendingFor(i) = 0 =>
                    items[i].got = << IF items[i].outcome = "returned" THEN "result" ELSE "error" >>
        /\ (items[i].state = "done" /\ ~items[i].cb) =>
              (items[i].got = <<>> /\ PendingFor(i) = 0)

\* one item raised and one returned, and both callbacks have run
C12_Witness ==
    \E i, j \in ItemIds :
        /\ items[i].cb /\ items[i].outcome = "raised" /\ items[i].got = <<"error">>
        /\ items[j].cb /\ items[j].outcome = "returned" /\ items[j].got = <<"result">>

\* ---- search: merging and ranking ---------------------------------------

SrchDeduped == srch.pc \in {"score", "sort", "done"}
SrchDone    == srch.pc = "done"
IsPrimaryRec(r) == Lower(r.repo) # "aur"
NamesOf(seq) == {seq[i].name : i \in DOMAIN seq}
PosOfName(seq, name) == CHOOSE i \in DOMAIN seq : seq[i].name = name

\* C13: after deduplication every name of the combined list is kept exactly
\* once, and a name that has a primary-source record anywhere in the combined
\* list is kept with a primary-source record, whatever the order was.
C13_DedupPrefersPrimary ==
    SrchDeduped =>
        /\ NamesOf(srch.unique) = NamesOf(srch.packages)
        /\ \A i, j \in DOMAIN srch.unique : srch.unique[i].name = srch.unique[j].name => i = j
        /\ \A i \in DOMAIN srch.packages :
              IsPrimaryRec(srch.packages[i]) =>
                  IsPrimaryRec(srch.unique[PosOfName(srch.unique, srch.packages[i].name)])
        /\ SrchDone /\ ~srch.raised =>
              \A i \in DOMAIN srch.packages :
                  IsPrimaryRec(srch.packages[i]) =>
                      /\ srch.packages[i].name \in NamesOf(srch.result)
                      /\ IsPrimaryRec(srch.result[PosOfName(srch.result, srch.packages[i].name)])

\* the alternate-source record came first and the primary one replaced it
C13_Witness ==
    /\ SrchDone
    /\ \E i, j \in DOMAIN srch.packages :
          /\ i < j
          /\ srch.packages[i].name = srch.packages[j].name
          /\ ~IsPrimaryRec(srch.packages[i])
          /\ IsPrimaryRec(srch.packages[j])
          /\ IsPrimaryRec(srch.result[PosOfName(srch.result, srch.packages[j].name)])

\* C14: the returned list holds the deduplicated records ordered by score,
\* highest first, and records of equal score stand in the order they had in
\* the deduplicated list.
C14_SortedDescendingStable ==
    SrchDone /\ ~srch.raised =>
        /\ Len(srch.result) = Len(srch.unique)
        /\ {srch.result[i] : i \in DOMAIN srch.result} = {srch.unique[i] : i \in DOMAIN srch.unique}
        /\ \A i, j \in DOMAIN srch.result :
              i < j =>
                  /\ srch.result[i].relevance_score >= srch.result[j].relevance_score
                  /\ srch.result[i].relevance_score = srch.result[j].relevance_score =>
                        PosOfName(srch.unique, srch.result[i].name)
                            < PosOfName(srch.unique, srch.result[j].name)

\* a tie between two records, and a pair the sort had to swap
C14_Witness ==
    /\ SrchDone
    /\ \E i, j \in DOMAIN srch.result :
          i < j /\ srch.result[i].relevance_score = srch.result[j].relevance_score
    /\ \E i, j \in DOMAIN srch.unique :
          i < j /\ srch.unique[i].relevance_score < srch.unique[j].relevance_score

NameEqualsQuery(r) == LowerStr(r.name) = LowerStr(srch.query)
NamePrefixOnly(r)  == StartsWith(LowerStr(r.name), LowerStr(srch.query)) /\ ~NameEqualsQuery(r)

\* C15: in the returned list a record whose name equals the query stands
\* before every record whose name only starts with it, and its score is
\* strictly higher.
C15_ExactAbovePrefix ==
    SrchDone /\ ~srch.raised =>
        \A i, j \in DOMAIN srch.result :
            NameEqualsQuery(srch.result[i]) /\ NamePrefixOnly(srch.result[j]) =>
                /\ i < j
                /\ srch.result[i].relevance_score > srch.result[j].relevance_score

\* the hardest pair: the exact match is a long, not installed AUR name and
\* the prefix match is an installed primary-source record
C15_Witness ==
    /\ SrchDone
    /\ \E i, j \in DOMAIN srch.result :
          /\ NameEqualsQuery(srch.result[i]) /\ NamePrefixOnly(srch.result[j])
          /\ ~srch.result[i].installed /\ ~IsPrimaryRec(srch.result[i])
          /\ Len(srch.result[i].name) > 20
          /\ srch.result[j].installed /\ IsPrimaryRec(srch.result[j])
          /\ i < j

\* the six tier conditions in their listed order, with their contributions
TierHolds(n, d, q, k) ==
    CASE k = 1 -> n = q
      [] k = 2 -> StartsWith(n, q)
      [] k = 3 -> Contains(" " \o n \o " ", " " \o q \o " ") \/ EndsWith(n, q)
      [] k = 4 -> Contains(n, q)
      [] k = 5 -> Contains(" " \o d \o " ", " " \o q \o " ")
      [] k = 6 -> Contains(d, q)
TierValue == <<1000, 800, 600, 400, 200, 100>>
TiersHolding(r) ==
    LET n == LowerStr(r.name)
        d == LowerStr(r.description)
        q == LowerStr(srch.query)
    IN {k \in 1 .. 6 : TierHolds(n, d, q, k)}
FirstTierValue(r) ==
    LET H == TiersHolding(r)
    IN IF H = {} THEN 0 ELSE TierValue[CHOOSE k \in H : \A m \in H : k <= m]
ExtrasOf(r) ==
      (IF r.installed THEN 50 ELSE 0)
    + (IF IsPrimaryRec(r) THEN 30 ELSE 0)
    + (IF 20 - Len(r.name) \div 2 > 0 THEN 20 - Len(r.name) \div 2 ELSE 0)
    - (IF Len(r.name) > 20 THEN 20 ELSE 0)

\* C16: a scored record's score is the contribution of the first tier whose
\* condition holds (none when no condition holds) plus the installed,
\* primary-source, name-length and long-name terms, which do not depend on
\* the tier.
C16_OneTierPlusExtras ==
    srch.pc \in {"sort", "done"} /\ ~srch.raised =>
        \A i \in DOMAIN srch.unique :
            srch.unique[i].relevance_score
                = FirstTierValue(srch.unique[i]) + ExtrasOf(srch.unique[i])

\* one record meets several tier conditions, another meets none and still
\* gets its extras
C16_Witness ==
    /\ srch.pc = "sort"
    /\ \E i, j \in DOMAIN srch.unique :
          /\ Cardinality(TiersHolding(srch.unique[i])) >= 3
          /\ TiersHolding(srch.unique[j]) = {}
          /\ srch.unique[j].relevance_score > 0

RankedOf(out) == SortByScore(Scored(Dedup(out), srch.query))

\* C17: a failing search command never makes search_packages fail: with one
\* command failed the result is the ranking of the other command's records,
\* with both failed it is empty.
C17_SourceFailureDegrades ==
    SrchDone =>
        /\ ~srch.raised
        /\ srch.pacFailed /\ ~srch.aurFailed => srch.result = RankedOf(srch.aurOut)
        /\ srch.aurFailed /\ ~srch.pacFailed => srch.result = RankedOf(srch.pacOut)
        /\ srch.pacFailed /\ srch.aurFailed => srch.result = <<>>

\* the primary command failed while it had records to list, and the
\* alternate command's records came back ranked
C17_Witness ==
    /\ SrchDone
    /\ srch.pacFailed /\ ~srch.aurFailed
    /\ srch.pacOut # <<>>
    /\ Len(srch.result) = 2

\* ---- the read loop's classification of fixed outputs --------------------

LinesRead == DOMAIN feed.out
ProgressOf(evs) == SelectSeq(evs, LAMBDA e : e.type = "progress")

\* bytes per unit, in KiB, as the claim's unit table has them
UnitKiB(u) == CASE u = "KiB" -> 1 [] u = "MiB" -> 1024 [] u = "GiB" -> 1024 * 1024
BinaryUnits == {"KiB", "MiB", "GiB"}
SizeCase(l) ==
    /\ l.size.present
    /\ l.size.cur.unit \in BinaryUnits /\ l.size.total.unit \in BinaryUnits
    /\ l.size.total.tenths > 0
    /\ l.pct < 0
ExpectedSizeFraction(l) ==
    100 + (300 * l.size.cur.tenths * UnitKiB(l.size.cur.unit))
              \div (l.size.total.tenths * UnitKiB(l.size.total.unit))
EmitsExactly(k, frac) ==
    /\ Len(ProgressOf(feed.out[k])) = 1
    /\ ProgressOf(feed.out[k])[1].frac = frac

\* C18 as stated: every line read that carries a size pair in KiB, MiB or GiB
\* with a positive total and no percentage marker yields one progress event
\* with fraction 0.10 + 0.30 * (cur_bytes / total_bytes).
C18_SizePairFraction ==
    \A k \in LinesRead :
        SizeCase(feed.lines[k]) => EmitsExactly(k, ExpectedSizeFraction(feed.lines[k]))

\* C18 amended: the same, for lines that carry no authentication-failure
\* phrase (those are classified first and yield 1.0); 1.5MiB/10MiB yields 0.145.
C18_SizePairFractionNoAuth ==
    /\ \A k \in LinesRead :
          SizeCase(feed.lines[k]) /\ ~feed.lines[k].auth =>
              EmitsExactly(k, ExpectedSizeFraction(feed.lines[k]))
    /\ \A k \in LinesRead : feed.lines[k] = LSizeMiB => EmitsExactly(k, 145)

\* 1.5MiB/10MiB and a pair of mixed units have been read
C18_Witness ==
    \E k, m \in LinesRead :
        /\ feed.lines[k] = LSizeMiB /\ EmitsExactly(k, 145)
        /\ feed.lines[m] = LSizeMixed /\ EmitsExactly(m, 250)

FeedFracs == [k \in LinesRead |-> ProgressOf(feed.out[k])[1].frac]

\* C19: while the ten phase headers are read in their canonical order each
\* line yields one progress event, the fractions never decrease, the first is
\* 0.05 and the tenth is 0.90.
C19_HeadersMonotonic ==
    feed.lines = HeaderScript =>
        /\ \A k \in LinesRead : Len(ProgressOf(feed.out[k])) = 1
        /\ \A k, m \in LinesRead : k <= m => FeedFracs[k] <= FeedFracs[m]
        /\ 1 \in LinesRead => FeedFracs[1] = 50
        /\ 10 \in LinesRead => FeedFracs[10] = 900

\* all ten headers have been read
C19_Witness ==
    /\ feed.lines = HeaderScript
    /\ Len(feed.out) = 10
    /\ FeedFracs[10] = 900

\* C20: every pending progress event, and the fraction the bar shows, is
\* between 0 and 1.
C20_FractionInRange ==
    /\ \A i \in DOMAIN idleQ :
          idleQ[i].type = "progress" => idleQ[i].frac >= 0 /\ idleQ[i].frac <= 1000
    /\ ui.frac >= 0 /\ ui.frac <= 1000

\* ---- outcome of a single operation --------------------------------------

\* a single operation read its process's output to the end: nobody asked to
\* cancel, no authentication marker was seen, nothing raised
PlainRunReported ==
    /\ operation \in SingleKinds
    /\ pc \in {"finally", "done"}
    /\ hist.cancelAt = "none"
    /\ ~hist.authSeen
    /\ ~hist.raised

\* C21: such a run has waited for the process and read its exit code; its
\* outcome is Succeeded (and the run completed) exactly when the code is 0,
\* and Failed for every other code.
C21_ExitCodeDecides ==
    PlainRunReported =>
        /\ "single" \in hist.rcRead
        /\ procs["single"].state = "exited"
        /\ hist.reported = "success" <=> procs["single"].rc = 0
        /\ hist.reported = "failed" <=> procs["single"].rc # 0
        /\ completed <=> procs["single"].rc = 0

\* a run that failed with exit code 1 after reading a line
C21_Witness ==
    /\ PlainRunReported
    /\ procs["single"].rc = 1
    /\ procs["single"].lines > 0
    /\ hist.reported = "failed"

\* ---- queue change notifications -----------------------------------------

IsPrefix(s, t) == Len(s) <= Len(t) /\ SubSeq(t, 1, Len(s)) = s

\* C22: the step of add_package that appends, every remove_package and every
\* clear hand exactly one invocation of the observer to the main loop; an
\* add_package of a queued name hands over none; no step of a queue call
\* runs an observer (nothing leaves the main loop's queue in such a step),
\* and the other steps of a call hand over nothing.
C22_NotificationsFollowMutations ==
    [][\A t \in Threads :
          thr'[t] # thr[t] =>
              /\ IsPrefix(idleQ, idleQ')
              /\ IF thr[t].pc = "add_append"
                   THEN idleQ' = IF packages' # packages THEN Append(idleQ, QNotify) ELSE idleQ
                 ELSE IF thr[t].pc \in {"remove", "clear"}
                   THEN idleQ' = Append(idleQ, QNotify)
                 ELSE idleQ' = idleQ]_vars

\* an add of a queued name has handed over nothing
C22_Witness ==
    \E t \in Threads :
        /\ thr[t].op = "add" /\ thr[t].pc = "unlock" /\ thr[t].found
        /\ idleQ = <<>>
        /\ packages # <<>>

\* ---- precedence of the classification rules -----------------------------

\* the conditions of the first five rules, in the order of the claim
RuleHolds(l, r) ==
    CASE r = 1 -> l.auth
      [] r = 2 -> l.pct >= 0
      [] r = 3 -> l.size.present
      [] r = 4 -> l.header > 0
      [] r = 5 -> l.prompt
\* the first rule whose condition holds; 6 (stall fallback) when none does
FirstRule(l) ==
    IF \A r \in 1 .. 5 : ~RuleHolds(l, r) THEN 6
    ELSE CHOOSE r \in 1 .. 5 : RuleHolds(l, r) /\ \A m \in 1 .. (r - 1) : ~RuleHolds(l, m)
PctFraction(l) ==
    IF l.kw = "downloading" THEN 100 + (300 * l.pct) \div 100
    ELSE IF l.kw = "installing" THEN 400 + (500 * l.pct) \div 100
    ELSE 100 + (800 * l.pct) \div 100
PctStatus(l) ==
    IF l.kw = "downloading" THEN "Downloading..."
    ELSE IF l.kw = "installing" THEN "Installing..." ELSE "Processing..."
SizeParsable(l) ==
    /\ l.size.cur.unit \in BinaryUnits /\ l.size.total.unit \in BinaryUnits
    /\ l.size.total.tenths > 0
\* what the k-th line may cause after its log append, by its first rule
RuleEffects(l, k) ==
    CASE FirstRule(l) = 1 -> { <<Progress(1000, "Authentication failed"), AuthErrEv>> }
      [] FirstRule(l) = 2 -> { <<Progress(PctFraction(l), PctStatus(l))>> }
      [] FirstRule(l) = 3 -> IF SizeParsable(l)
                               THEN { <<Progress(ExpectedSizeFraction(l), "Downloading...")>> }
                               ELSE { <<>> }
      [] FirstRule(l) = 4 -> { <<Progress(HeaderTable[l.header].frac, HeaderTable[l.header].status)>> }
      [] FirstRule(l) = 5 -> { <<StdinEv>> }
      [] FirstRule(l) = 6 -> { <<>>, <<Progress(Min(100 + k, 950), "Processing...")>> }

\* C23: each line read by a single operation is appended to the log and then
\* causes exactly what its first matching rule says (authentication marker,
\* percentage marker, size pair, phase header, confirmation prompt, stall
\* fallback), and nothing of any later rule; an authentication marker ends
\* the reading.
C23_FirstMatchingRuleOnly ==
    \A k \in LinesRead :
        /\ feed.out[k] # <<>>
        /\ Head(feed.out[k]) = LogEv(k)
        /\ Tail(feed.out[k]) \in RuleEffects(feed.lines[k], k)
        /\ feed.lines[k].auth => Len(feed.out) = k

\* a percentage marker on a phase-header line, and an authentication marker
\* on a line that has a percentage marker too, have been read
C23_Witness ==
    /\ Len(feed.out) = 2
    /\ \/ /\ Tail(feed.out[1]) = <<Progress(500, "Processing...")>>
          /\ feed.lines = <<LPctHeader, LHeaderPrompt>>
       \/ /\ Tail(feed.out[1]) = <<>>
          /\ feed.lines = <<LSizeTiBPrompt, LPctAuth>>

\* ---- percentage markers -------------------------------------------------

\* the fraction the claim gives for "(p%)" on a line with this text
ExpectedPct(text, p) ==
    IF Contains(LowerStr(text), "downloading") THEN 100 + (300 * p) \div 100
    ELSE IF Contains(LowerStr(text), "installing") THEN 400 + (500 * p) \div 100
    ELSE 100 + (800 * p) \div 100
PctRange(text) ==
    IF Contains(LowerStr(text), "downloading") THEN 100 .. 400
    ELSE IF Contains(LowerStr(text), "installing") THEN 400 .. 900
    ELSE 100 .. 900
HasText(l) == "text" \in DOMAIN l

\* C24 as stated: every line read with a marker "(p%)", 0 <= p <= 100, yields
\* one progress event whose fraction is given by the keyword of the line.
C24_PercentFraction ==
    \A k \in LinesRead :
        (feed.lines[k].pct >= 0 /\ feed.lines[k].pct <= 100) =>
            EmitsExactly(k, PctFraction(feed.lines[k]))

\* C24 amended: the same for lines without authentication-failure phrase
\* (those are classified first and yield 1.0); the keyword is looked for in
\* the lower-cased line, "downloading" first, and the fraction stays within
\* the keyword's range.
C24_PercentFractionNoAuth ==
    /\ \A k \in LinesRead :
          (feed.lines[k].pct >= 0 /\ feed.lines[k].pct <= 100 /\ ~feed.lines[k].auth) =>
              EmitsExactly(k, PctFraction(feed.lines[k]))
    /\ \A k \in LinesRead :
          LET l == feed.lines[k]
          IN (HasText(l) /\ l.pct >= 0 /\ l.pct <= 100 /\ ~l.auth) =>
                 /\ EmitsExactly(k, ExpectedPct(l.text, l.pct))
                 /\ ExpectedPct(l.text, l.pct) \in PctRange(l.text)

\* a line with both keywords, "Installing" first and capitalised, was read
\* after one with a capitalised "Downloading"
C24_Witness ==
    /\ Len(feed.out) = 2
    /\ EmitsExactly(1, 220)
    /\ EmitsExactly(2, 220)
    /\ feed.lines = <<LPctDown, LPctBoth>>

\* ---- stall fallback -----------------------------------------------------

RECURSIVE Flatten(_)
Flatten(ss) == IF ss = <<>> THEN <<>> ELSE Head(ss) \o Flatten(Tail(ss))

\* the fraction of the last progress event of the run before the k-th line
\* was read: the initial 0.05, or what an earlier line emitted
LastFracBefore(k) ==
    LET before == ProgressOf(Flatten(SubSeq(feed.out, 1, k - 1)))
    IN IF before = <<>> THEN 50 ELSE before[Len(before)].frac

\* C25: when the stall fallback fires on a line of a single operation, the
\* fraction it emits is not lower than the fraction emitted last before it,
\* and it is below 0.95.
C25_StallNeverLowers ==
    \A k \in LinesRead :
        (FirstRule(feed.lines[k]) = 6 /\ ProgressOf(feed.out[k]) # <<>>) =>
            /\ ProgressOf(feed.out[k])[1].frac >= LastFracBefore(k)
            /\ ProgressOf(feed.out[k])[1].frac < 950

\* ---- lines that match no rule ------------------------------------------

\* C26: reading a line that matches no rule while no more than two seconds
\* have passed since the last progress event appends the line to the log and
\* nothing else: no progress event, no answer written to the process, and the
\* displayed fraction and status stay as they were.
C26_UnmatchedLineOnlyLogged ==
    [][(/\ feed # NoFeed
        /\ Len(feed'.out) = Len(feed.out) + 1
        /\ FirstRule(feed.lines[Len(feed'.out)]) = 6
        /\ feed'.gap[Len(feed'.out)] <= 2)
          => /\ idleQ' = Append(idleQ, LogEv(Len(feed'.out)))
             /\ feed'.out[Len(feed'.out)] = <<LogEv(Len(feed'.out))>>
             /\ ui' = ui]_vars

C26_Witness ==
    \E k \in LinesRead :
        /\ FirstRule(feed.lines[k]) = 6
        /\ feed.gap[k] = 2
        /\ feed.out[k] = <<LogEv(k)>>
        /\ k > 1 /\ ProgressOf(feed.out[k - 1]) # <<>>

\* ---- batch read loops ---------------------------------------------------

\* the events a step added to the main-loop queue
Enqueued == SubSeq(idleQ', Len(idleQ) + 1, Len(idleQ'))

\* C27: when a batch sub-command prints a line with a percentage marker, a
\* parsable size pair or a phase header (and no authentication marker),
\* reading it emits a progress event with the status that rule gives in a
\* single operation.
C27_BatchUsesRuleTable ==
    [][(/\ operation = "queue_install" /\ feed # NoFeed
        /\ procs'[wk.phase].lines = procs[wk.phase].lines + 1
        /\ FirstRule(feed.lines[procs'[wk.phase].lines]) \in 2 .. 4
        /\ Classify(feed.lines[procs'[wk.phase].lines], 1, FALSE).kind = "progress")
          => \E i \in DOMAIN Enqueued :
                /\ Enqueued[i].type = "progress"
                /\ Enqueued[i].status =
                       Classify(feed.lines[procs'[wk.phase].lines], 1, FALSE).status]_vars

\* ---- cancelling a batch run ---------------------------------------------

\* C28: when a batch run is cancelled while one of its sub-commands is running,
\* that process has been sent a terminate signal (or has ended) by the time the
\* run reports Cancelled, and no process launched by the run is still running
\* without one when the run is over.
C28_BatchCancelTerminates ==
    (operation = "queue_install" /\ hist.reported = "cancelled") =>
        /\ \A p \in hist.aliveAtCancel : procs[p].term \/ procs[p].state = "exited"
        /\ RunOver => \A p \in hist.launched : procs[p].term \/ procs[p].state = "exited"

\* the cancel flag is set, the primary sub-command has exited with code 0, the
\* batch has alternate-source packages and their sub-command is not launched
CancelledBetweenSubcommands ==
    /\ operation = "queue_install" /\ cancelled /\ hist.reported = "none"
    /\ procs["primary"].state = "exited" /\ procs["primary"].rc = 0
    /\ wk.aur # <<>>
    /\ "alternate" \notin hist.launched

\* C29: once a batch run is cancelled after its primary sub-command exited 0
\* and before the alternate one is launched, no step launches the alternate
\* sub-command, clears the queue or marks the run completed, and the only
\* outcome the run reports is Cancelled.
C29_CancelBetweenSkipsAlternate ==
    [][CancelledBetweenSubcommands =>
          /\ "alternate" \notin hist'.launched
          /\ hist'.runClears = hist.runClears /\ packages' = packages
          /\ completed' = completed
          /\ hist'.reported \in {"none", "cancelled"}]_vars

\* ---- order of delivery --------------------------------------------------

\* the log appends and progress events the lines read so far handed to the
\* main loop, in the order the lines were read
HandedOver == SelectSeq(Flatten(feed.out), LAMBDA e : e.type # "stdin")

\* C30: the main loop runs the log appends and progress events of a single
\* operation in the order its lines were read: after the initial progress
\* event, what it has run so far is what the lines handed over, line by line,
\* so nothing caused by a later line runs before something of an earlier one.
C30_DeliveredInReadOrder ==
    \A i \in DOMAIN feed.seen :
        (1 < i /\ i <= Len(HandedOver) + 1) => feed.seen[i] = HandedOver[i - 1]

\* two lines that both emitted progress have been read before the main loop
\* ran anything, and the main loop has then run all of it
C30_Witness ==
    /\ Len(feed.out) = 2
    /\ ProgressOf(feed.out[1]) # <<>> /\ ProgressOf(feed.out[2]) # <<>>
    /\ Len(feed.seen) >= 5
    /\ idleQ = <<>>

\* the names the two search commands listed, as far as their output was parsed
ParsedNames ==
    (IF srch.pacFailed THEN {} ELSE NamesOf(srch.pacOut))
        \cup (IF srch.aurFailed THEN {} ELSE NamesOf(srch.aurOut))

\* C35: the list search_packages returns has no two records of one name, and
\* it has a record for every name that either source's parsed output lists.
C35_ResultNamesExactlyOnce ==
    (SrchDone /\ ~srch.raised) =>
        /\ Cardinality(NamesOf(srch.result)) = Len(srch.result)
        /\ ParsedNames \subseteq NamesOf(srch.result)

\* both sources listed a name, one source listed a name twice, and every name
\* is in the returned list
C35_Witness ==
    /\ SrchDone /\ ~srch.pacFailed /\ ~srch.aurFailed
    /\ NamesOf(srch.pacOut) \cap NamesOf(srch.aurOut) # {}
    /\ Len(srch.pacOut) = 2 /\ Cardinality(NamesOf(srch.pacOut)) = 1
    /\ Len(srch.result) = 2
    /\ NamesOf(srch.result) = ParsedNames

(***************************************************************************)
(* Blocking points and contexts                                            *)
(***************************************************************************)
\* C31: the controlling context is never at a blocking point of a run; in
\* particular it never waits for the exit of a process that is still alive
\* (launching, reading and waiting belong to the worker's positions only).
C31_UiNeverBlocks ==
    ~(uiPc = "cancel_wait" /\ process # NoProc /\ Alive(process))

\* C32: the observer that redraws the queue page reads the member list only
\* while no add / remove / clear critical section is in progress (it holds
\* the lock or a copy made under it): when the main loop runs the observer,
\* nobody else holds the queue's lock.
C32_ReadsSerialized ==
    [][(/\ idleQ # <<>> /\ Head(idleQ).type = "qnotify"
        /\ idleQ' = Tail(idleQ))
          => lock = NoOwner]_vars

(***************************************************************************)
(* Commands (checked under SpecCommand)                                    *)
(***************************************************************************)
\* ' '.join(cmd), as the log shows the command
RECURSIVE Join(_)
Join(words) ==
    IF words = <<>> THEN ""
    ELSE IF Len(words) = 1 THEN words[1]
    ELSE words[1] \o " " \o Join(Tail(words))

\* the command line the claim gives for a single operation
ClaimedCommand(op, aur, name) ==
    CASE op \in {"install", "update"} /\ ~aur -> "pkexec pacman -S --noconfirm " \o name
      [] op \in {"install", "update"} /\ aur  -> "yay -S --noconfirm " \o name
      [] op = "uninstall"                     -> "pkexec pacman -R --noconfirm " \o name
      [] op = "system_update"                 -> "pkexec pacman -Syu --noconfirm"

\* C33: the command a single operation has built when it launches its process
\* is the one of the table: pacman -S behind pkexec, or yay -S with the
\* alternate-source flag, for install and update; pacman -R and pacman -Syu
\* behind pkexec for uninstall and system update, whatever the flag is.
C33_SingleCommand ==
    (operation \in SingleKinds /\ pc # "start") =>
        Join(wk.cmd) = ClaimedCommand(operation, is_aur, packages[1].name)

C33_Witness ==
    /\ operation = "uninstall" /\ is_aur
    /\ "single" \in hist.launched
    /\ Join(wk.cmd) = "pkexec pacman -R --noconfirm yay-bin"

\* C34: a run of kind update_repos has built the command "pkexec pacman -Sy"
\* and launched it by the time it reports a terminal outcome.
C34_RepoRefreshLaunches ==
    (operation = "update_repos" /\ hist.reported # "none") =>
        /\ Join(wk.cmd) = "pkexec pacman -Sy"
        /\ "single" \in hist.launched

(***************************************************************************)
(* Queue and batch run (checked under SpecBatchAdd)                        *)
(***************************************************************************)
\* the names the sub-commands of the run were given
NamedInSubcommands == NamesOf(wk.pac) \cup NamesOf(wk.aur)

\* C36: when a successful batch run clears the queue, every package the clear
\* removes was named in one of the run's sub-commands.
C36_ClearRemovesOnlyInstalled ==
    [][hist'.runClears = hist.runClears + 1 =>
          NamesOf(packages) \subseteq NamedInSubcommands]_vars

\* an authentication-failure phrase was read from the primary sub-command
AuthSeenInPrimary ==
    operation = "queue_install" /\ hist.authSeen /\ "alternate" \notin hist.launched

\* C37: once an authentication-failure phrase was read from the primary
\* sub-command of a batch run, no step launches the alternate sub-command,
\* reports success or clears the queue, whatever the exit code is.
C37_BatchAuthFailureStops ==
    [][AuthSeenInPrimary =>
          /\ "alternate" \notin hist'.launched
          /\ hist'.reported # "success"
          /\ hist'.runClears = hist.runClears]_vars

(***************************************************************************)
(* Liveness of cancellation (checked under SpecCancelLive)                 *)
(***************************************************************************)
\* C38: a cancel requested while the process of a run is alive leads to the
\* run being over with a Cancelled status emitted and the completion
\* notification delivered, whether or not the process prints or exits by
\* itself.
C38_CancelLeadsToCompletion ==
    (CancelledInFlight /\ hist.aliveAtCancel # {})
        ~> (/\ pc = "done" /\ hist.delivered >= 1
            /\ (hist.reported = "cancelled" \/ hist.cancelStatusByUi))

(***************************************************************************)
(* The search box (checked under SpecBox)                                  *)
(***************************************************************************)
\* no timer is pending, no search is queued or running, no completion waits
BoxQuiet ==
    /\ srch.pc = "box" /\ ~srch.timer.set /\ idleQ = <<>>
    /\ \A i \in ItemIds : items[i].state \in {"new", "done"}

\* C39: once every search has completed, the list the main window holds is
\* the result of the query entered last, or empty when that query has fewer
\* than two characters (searches that raised apart).
C39_LatestQueryWins ==
    (BoxQuiet /\ \A i \in ItemIds : items[i].outcome # "raised") =>
        srch.shown = IF Len(srch.last) >= 2 THEN search_packages(srch.last) ELSE <<>>

(***************************************************************************)
(* Tiers against the other score terms (checked under SpecScore)           *)
(***************************************************************************)
\* the first tier a record meets, 7 when it meets none
FirstTier(r) ==
    LET H == TiersHolding(r)
    IN IF H = {} THEN 7 ELSE CHOOSE k \in H : \A m \in H : k <= m

RecordsScored == srch.pc \in {"sort", "done"} /\ ~srch.raised

\* C40, as stated: a record matched by an earlier tier has a strictly higher
\* score than any record matched only by a later tier or by none.
C40_EarlierTierScoresHigher ==
    RecordsScored =>
        \A i, j \in DOMAIN srch.unique :
            FirstTier(srch.unique[i]) < FirstTier(srch.unique[j]) =>
                srch.unique[i].relevance_score > srch.unique[j].relevance_score

\* C40, amended: the strict order holds when the earlier tier is one of the
\* four name tiers, and for a whole word in the description against a record
\* that meets no tier (the contributions differ by 200 at least).
C40_NameTiersScoreHigher ==
    RecordsScored =>
        \A i, j \in DOMAIN srch.unique :
            (/\ FirstTier(srch.unique[i]) < FirstTier(srch.unique[j])
             /\ \/ FirstTier(srch.unique[i]) <= 4
                \/ FirstTier(srch.unique[i]) = 5 /\ FirstTier(srch.unique[j]) = 7)
              => srch.unique[i].relevance_score > srch.unique[j].relevance_score

\* the hardest pairs: a long, not installed AUR record of the name-substring
\* tier against a short installed primary record of the description-word
\* tier, or such a description-word record against a short installed primary
\* record that meets no tier
C40_Witness ==
    /\ RecordsScored
    /\ \E i, j \in DOMAIN srch.unique :
          /\ ~srch.unique[i].installed /\ ~IsPrimaryRec(srch.unique[i])
          /\ Len(srch.unique[i].name) > 20
          /\ srch.unique[j].installed /\ IsPrimaryRec(srch.unique[j])
          /\ \/ FirstTier(srch.unique[i]) = 4 /\ FirstTier(srch.unique[j]) = 5
             \/ FirstTier(srch.unique[i]) = 5 /\ FirstTier(srch.unique[j]) = 7
          /\ srch.unique[i].relevance_score > srch.unique[j].relevance_score

====
